---- MODULE Spec2Model ----
(***************************************************************************)
(* Transfer execution core of the P2P wallet service: the idempotency gate *)
(* (idempotency.service.ts), the saga coordinator (saga.service.ts), the   *)
(* wallet mutation layer (wallet.service.ts, cache.service.ts) and the     *)
(* limit ledger (transfer.service.ts).                                     *)
(*                                                                         *)
(* Every request is served by a worker p.  A worker's handler is split at  *)
(* the awaits where another worker's effect can be observed: reads and     *)
(* writes of a wallet row, the limit row, the cache and the lease.         *)
(* Consecutive writes of the worker's own transaction row are one step.    *)
(* Amounts are integers (minor units).                                     *)
(***************************************************************************)
EXTENDS Integers, Sequences, FiniteSets, TLC

\* ------------------------------------------------------------------ bounds
MaxFaults   == 1   \* infrastructure failures injected into saga steps
MaxAmount   == 2   \* largest amount of a request
MaxBalance  == 2   \* largest initial balance of wallet w1
DailyLimit  == 3   \* dailyLimit of every ledger (DEFAULT_DAILY_LIMIT, scaled)
MonthlyLimit == 4  \* monthlyLimit of every ledger (DEFAULT_MONTHLY_LIMIT, scaled)
MaxOutage   == 4   \* failures injected while one worker runs alone (SpecR)
MaxResubmits == 1  \* resubmissions of a failed request under its key (SpecR)

\* ------------------------------------------------------------------ world
\* two workers, each serving one request; Cid numbers the requests
Procs   == {"p1", "p2"}
Cid     == [p \in Procs |-> IF p = "p1" THEN 1 ELSE 2]
Wallets == {"w1", "w2", "w3"}
Users   == {"u1", "u2"}

\* wallet rows' immutable columns (wallet.entity: userId, currency, isActive)
WalletOwner    == [w \in Wallets |-> IF w = "w2" THEN "u2" ELSE "u1"]
WalletCurrency == [w \in Wallets |-> IF w = "w3" THEN "EUR" ELSE "USD"]
WalletActive   == [w \in Wallets |-> TRUE]

ExplicitKeys == {"k1", "k2"}
AutoKeyOf    == [p \in Procs |-> IF p = "p1" THEN "auto_1" ELSE "auto_2"]
AutoKeys     == {AutoKeyOf[p] : p \in Procs}
Keys         == ExplicitKeys \cup AutoKeys
NoKey        == "none"

\* idempotencyKey.startsWith('auto_')
IsAutoKey(k) == k \in AutoKeys

Amounts == 1..MaxAmount

\* the request payloads a caller may submit (TransferDto + caller identity)
Requests ==
    {[user |-> "u1", src |-> "w1", dst |-> "w2", amount |-> a] : a \in Amounts}
    \cup {[user |-> "u2", src |-> "w2", dst |-> "w1", amount |-> 1],
          [user |-> "u1", src |-> "w1", dst |-> "w1", amount |-> 1],
          [user |-> "u1", src |-> "w1", dst |-> "w3", amount |-> 1],
          [user |-> "u2", src |-> "w1", dst |-> "w2", amount |-> 1]}

\* clock: the current day and month (dayjs().startOf('day' / 'month'))
Today     == [day |-> 1, month |-> 1]

\* ------------------------------------------------------------------ enums
StepNames == <<"validate_transfer", "reserve_funds", "debit_source_wallet",
               "credit_destination_wallet", "finalize_transfer">>
StepRetryable   == <<TRUE, TRUE, TRUE, TRUE, FALSE>>
StepMaxRetries  == <<3, 2, 2, 2, 0>>
NumSteps == Len(StepNames)

\* SagaService.getTransferStateForStep: stateMap[stepIndex] || INITIATED
getTransferStateForStep(i) ==
    LET stateMap == <<"INITIATED", "VALIDATION_COMPLETE", "FUNDS_RESERVED",
                      "DEBIT_COMPLETE", "CREDIT_COMPLETE">>
    IN  IF i + 1 \in DOMAIN stateMap THEN stateMap[i + 1] ELSE "INITIATED"

\* first position of a step's execute()
StepEntry(i) ==
    CASE i = 0 -> "s_validate"
      [] i = 1 -> "s_reserve"
      [] i = 2 -> "s_debit_read"
      [] i = 3 -> "s_credit_read"
      [] OTHER -> "s_finalize"

\* positions inside a step's execute(), where the step may throw
StepPcs == {"s_validate", "s_reserve", "s_debit_read", "s_debit_update",
            "s_debit_cache", "s_credit_read", "s_credit_update",
            "s_credit_cache", "s_finalize"}

NoVal == -1

\* ------------------------------------------------------------------ state
VARIABLES
    balance,    \* wallets.balance, the stored balance of each wallet
    wcache,     \* cache entry wallet_balance_v2:{walletId}
    lock,       \* cache entry wallet_lock:{walletId}: 0 or the lease token
    txs,        \* table transactions: sequence of rows, id = position
    limits,     \* table transfer_limits: one row per user
    rcache,     \* cache entries idempotency:{key}
    ecache,     \* cache entries idempotency_error:{key}
    hcache,     \* cache entries request_hash:{hash}
    pc,         \* position of each worker in its handler
    call,       \* locals of each worker's handler
    faults,     \* failures injected so far
    balance0,   \* history: the balances of the initial state
    limits0,    \* history: the ledgers of the initial state
    deposited   \* history: amount committed by addFunds, per wallet

vars == <<balance, wcache, lock, txs, limits, rcache, ecache, hcache,
          pc, call, faults, balance0, limits0, deposited>>

\* a wallet_balance_v2 entry: stale when lastUpdated is 60 s old or older;
\* high is history, the highest version ever stored under the key
NoEntry  == [present |-> FALSE, balance |-> 0, version |-> 0,
             stale |-> FALSE, high |-> 0]
NoResult == [kind |-> "none"]
NoLimit  == [dailyUsed |-> 0, monthlyUsed |-> 0, dailyLimit |-> 0,
             monthlyLimit |-> 0, lastDailyReset |-> 0, lastMonthlyReset |-> 0]

\* executions (how often step.execute() was awaited), stepRetries (how often
\* the current step was retried) and invoked (the compensate() calls made so
\* far, each with whether it returned) are history
Idle == [op |-> "none", cid |-> 0, user |-> "", src |-> "", dst |-> "",
         amount |-> 0, key |-> NoKey, tx |-> 0, step |-> 0, retryCount |-> 0,
         completedSteps |-> <<>>, compensatedSteps |-> <<>>, todo |-> <<>>,
         sourceBalanceBefore |-> NoVal, destinationBalanceBefore |-> NoVal,
         lim |-> NoLimit, version |-> 0, updatedBalance |-> NoVal,
         resp |-> NoResult, error |-> "", lastError |-> "", faulted |-> FALSE,
         changedUsage |-> FALSE, advancedUsage |-> FALSE,
         resubmits |-> 0, retried |-> FALSE,
         executions |-> 0, stepRetries |-> 0, invoked |-> <<>>]

\* createRequestHash: md5 over method, endpoint (names the source wallet),
\* destinationWalletId, amount, description and userId; the key and the
\* external reference are left out.  The digest is modelled by the tuple of
\* the fields it covers (no collisions).
createRequestHash(c) == <<c.user, c.src, c.dst, c.amount>>
Hashes  == {<<r.user, r.src, r.dst, r.amount>> : r \in Requests}
NoHash  == [present |-> FALSE, key |-> NoKey]

\* ------------------------------------------------------------------ Init
\* ledgers of the initial state: u1 has used nothing, or has used 2 today, or
\* used 1 on an earlier day of an earlier month (both resets are due)
InitLedgers ==
    {[u \in Users |->
        IF u = "u1"
        THEN [dailyUsed |-> h[1], monthlyUsed |-> h[1],
              dailyLimit |-> DailyLimit, monthlyLimit |-> MonthlyLimit,
              lastDailyReset |-> h[2], lastMonthlyReset |-> h[2]]
        ELSE [dailyUsed |-> 0, monthlyUsed |-> 0,
              dailyLimit |-> DailyLimit, monthlyLimit |-> MonthlyLimit,
              lastDailyReset |-> Today.day, lastMonthlyReset |-> Today.month]] :
        h \in {<<0, 1>>, <<2, 1>>, <<1, 0>>}}

Init ==
    /\ \E b1 \in 1..MaxBalance :
          balance = [w \in Wallets |->
                       IF w = "w1" THEN b1 ELSE IF w = "w2" THEN 1 ELSE 0]
    /\ wcache = [w \in Wallets |-> NoEntry]
    /\ lock = [w \in Wallets |-> 0]
    /\ txs = <<>>
    /\ limits \in InitLedgers
    /\ rcache = [k \in Keys |-> NoResult]
    /\ ecache = [k \in Keys |-> FALSE]
    /\ hcache = [h \in Hashes |-> NoHash]
    /\ pc = [p \in Procs |-> "idle"]
    /\ call = [p \in Procs |-> Idle]
    /\ faults = 0
    /\ balance0 = balance
    /\ limits0 = limits
    /\ deposited = [w \in Wallets |-> 0]

\* ------------------------------------------------------------------ helpers
Max(S) == CHOOSE x \in S : \A y \in S : y <= x

RECURSIVE Reverse(_)
Reverse(s) == IF s = <<>> THEN <<>> ELSE Append(Reverse(Tail(s)), Head(s))

RECURSIVE SumOver(_, _)
SumOver(f, S) ==
    IF S = {} THEN 0
    ELSE LET x == CHOOSE y \in S : TRUE IN f[x] + SumOver(f, S \ {x})

ErrorResp(code) == [kind |-> "error", code |-> code]

\* the worker returns (or throws) to its caller
Finish(p, resp) ==
    /\ pc' = [pc EXCEPT ![p] = "done"]
    /\ call' = [call EXCEPT ![p] =
                  [Idle EXCEPT !.op = call[p].op, !.cid = call[p].cid,
                               !.user = call[p].user, !.src = call[p].src,
                               !.dst = call[p].dst, !.amount = call[p].amount,
                               !.key = call[p].key, !.tx = call[p].tx,
                               !.faulted = call[p].faulted,
                               !.changedUsage = call[p].changedUsage,
                               !.advancedUsage = call[p].advancedUsage,
                               !.resubmits = call[p].resubmits,
                               !.retried = call[p].retried,
                               !.resp = resp]]

\* repository.findOne({ where: { idempotencyKey }, order: { createdAt: 'DESC' } })
RowIdsByKey(k) == {i \in DOMAIN txs : txs[i].key = k}

\* TransferService.mapToTransferResponseDto: transferState, idempotencyKey and
\* completedAt go into metadata (description, createdAt, completedAt and the
\* row's own metadata are left out of the model: they are copied unchanged or
\* are clock values)
mapToTransferResponseDto(row) ==
    [kind |-> "result", id |-> row.id, amount |-> row.amount,
     sourceWalletId |-> row.src, destinationWalletId |-> row.dst,
     status |-> row.status,
     metadata |-> [transferState |-> row.transferState,
                   idempotencyKey |-> row.key]]

\* IdempotencyService.reconstructResultFromTransaction (row is COMPLETED):
\* transferState is a top-level field and metadata is the row's metadata
reconstructResultFromTransaction(row) ==
    [kind |-> "result", id |-> row.id, amount |-> row.amount,
     sourceWalletId |-> row.src, destinationWalletId |-> row.dst,
     status |-> row.status, transferState |-> row.transferState,
     metadata |-> [x \in {} |-> ""]]

\* IdempotencyService.canRetryFailedTransaction
NonRetryableErrors == {"insufficient_balance", "invalid_wallet",
                       "limit_exceeded", "currency_mismatch"}
canRetryFailedTransaction(row) ==
    IF row.retryCount >= 3 THEN FALSE
    ELSE IF row.errorCode \in NonRetryableErrors THEN FALSE
    ELSE TRUE

\* IdempotencyService.isTransactionInProgress
isTransactionInProgress(row) == row.status \in {"PENDING", "PROCESSING"}

\* ------------------------------------------------------------------ transferFunds
\* requests go to the first idle worker (workers are interchangeable)
FirstIdle(p) == p = "p1" \/ pc["p1"] # "idle"

\* keys are interchangeable: k2 is taken only when k1 is known to the system
KeyInUse(k) ==
    \/ \E p \in Procs : call[p].key = k
    \/ \E i \in DOMAIN txs : txs[i].key = k
    \/ \E h \in Hashes : hcache[h].key = k
    \/ rcache[k].kind # "none"
    \/ ecache[k]
UsableKeys == IF KeyInUse("k1") THEN ExplicitKeys ELSE {"k1"}

\* TransferService.transferFunds, entry: the key is the caller's or generated
\* (generateIdempotencyKey: 'auto_' + a digest over the time and a nonce)
StartWith(p, R, K) ==
    /\ pc[p] = "idle"
    /\ FirstIdle(p)
    /\ \E r \in R, k \in K :
          call' = [call EXCEPT ![p] =
                     [Idle EXCEPT !.op = "transfer", !.cid = Cid[p],
                                  !.user = r.user, !.src = r.src, !.dst = r.dst,
                                  !.amount = r.amount,
                                  !.key = IF k = NoKey THEN AutoKeyOf[p] ELSE k]]
    /\ pc' = [pc EXCEPT ![p] = "gate"]
    /\ UNCHANGED <<balance, wcache, lock, txs, limits, rcache, ecache, hcache,
                   faults, balance0, limits0, deposited>>

StartTransfer(p) == StartWith(p, Requests, UsableKeys \cup {NoKey})

\* IdempotencyService.validateRequestUniqueness: TRUE when it throws Conflict
HashConflict(c) ==
    LET e == hcache[createRequestHash(c)]
    IN  /\ e.present
        /\ e.key # c.key
        /\ \E i \in RowIdsByKey(e.key) : isTransactionInProgress(txs[i])

\* handleExistingTransaction that lets a COMPLETED key through as a new request
GateCompleted_mut(p, row) ==
    /\ pc' = [pc EXCEPT ![p] = "validate"]
    /\ UNCHANGED <<call, rcache, hcache>>

\* IdempotencyService.handleExistingTransaction, status COMPLETED
GateCompleted(p, row) ==
    LET result == reconstructResultFromTransaction(row)
    IN  /\ rcache' = [rcache EXCEPT ![row.key] = result]
        /\ Finish(p, result)
        /\ UNCHANGED hcache

\* IdempotencyService.handleExistingTransaction, status FAILED / CANCELLED
GateFailed(p, row) ==
    /\ IF canRetryFailedTransaction(row)
       THEN /\ pc' = [pc EXCEPT ![p] = "validate"]
            /\ call' = [call EXCEPT ![p].retried = TRUE]
       ELSE Finish(p, ErrorResp("BadRequest:transfer_failed"))
    /\ UNCHANGED <<rcache, hcache>>

\* handleExistingTransaction that lets a PENDING key through as a new request
GateInProgress_mut(p, row) ==
    /\ pc' = [pc EXCEPT ![p] = "validate"]
    /\ UNCHANGED <<call, rcache, hcache>>

\* IdempotencyService.handleExistingTransaction, status PENDING / PROCESSING:
\* the row goes back to transferFunds, whose handleExistingTransaction throws
\* ConflictException
GateInProgress(p, row) ==
    /\ Finish(p, ErrorResp("Conflict:in_progress"))
    /\ UNCHANGED <<rcache, hcache>>

\* IdempotencyService.checkIdempotency and the branch of transferFunds on it
Gate(p) ==
    /\ pc[p] = "gate"
    /\ LET c   == call[p]
           ids == RowIdsByKey(c.key)
       IN  IF rcache[c.key].kind # "none"
           THEN /\ Finish(p, rcache[c.key])
                /\ UNCHANGED <<rcache, hcache>>
           ELSE IF ids # {}
           THEN LET row == txs[Max(ids)]
                IN  CASE row.status = "COMPLETED" -> GateCompleted(p, row)
                      [] row.status \in {"PENDING", "PROCESSING"} ->
                            GateInProgress(p, row)
                      [] row.status \in {"FAILED", "CANCELLED"} ->
                            GateFailed(p, row)
                      [] OTHER ->
                            /\ Finish(p, ErrorResp("BadRequest:unknown_status"))
                            /\ UNCHANGED <<rcache, hcache>>
           ELSE IF ~IsAutoKey(c.key) /\ HashConflict(c)
           THEN /\ Finish(p, ErrorResp("Conflict:similar_transfer"))
                /\ UNCHANGED <<rcache, hcache>>
           ELSE /\ pc' = [pc EXCEPT ![p] = "validate"]
                /\ hcache' = IF IsAutoKey(c.key) THEN hcache
                             ELSE [hcache EXCEPT ![createRequestHash(c)] =
                                      [present |-> TRUE, key |-> c.key]]
                /\ UNCHANGED <<call, rcache>>
    /\ UNCHANGED <<balance, wcache, lock, txs, limits, ecache, faults,
                   balance0, limits0, deposited>>

\* TransferService.validateTransferRequest up to the limit check
ValidateError(c, bal) ==
    IF c.amount <= 0 THEN "BadRequest:amount_not_positive"
    ELSE IF c.src = c.dst THEN "BadRequest:same_wallet"
    ELSE IF ~(WalletOwner[c.src] = c.user /\ WalletActive[c.src])
         THEN "NotFound:source_wallet"
    ELSE IF ~WalletActive[c.dst] THEN "NotFound:destination_wallet"
    ELSE IF WalletCurrency[c.src] # WalletCurrency[c.dst]
         THEN "BadRequest:currency_mismatch"
    ELSE IF bal[c.src] < c.amount THEN "BadRequest:insufficient_balance"
    ELSE "ok"

ValidateRequest(p) ==
    /\ pc[p] = "validate"
    /\ IF ValidateError(call[p], balance) = "ok"
       THEN /\ pc' = [pc EXCEPT ![p] = "limits_read"]
            /\ UNCHANGED call
       ELSE Finish(p, ErrorResp(ValidateError(call[p], balance)))
    /\ UNCHANGED <<balance, wcache, lock, txs, limits, rcache, ecache, hcache,
                   faults, balance0, limits0, deposited>>

\* validateTransferLimits: the resets applied to the loaded entity
ResetLimits(l) ==
    LET d == IF l.lastDailyReset < Today.day
             THEN [l EXCEPT !.dailyUsed = 0, !.lastDailyReset = Today.day]
             ELSE l
    IN  IF d.lastMonthlyReset < Today.month
        THEN [d EXCEPT !.monthlyUsed = 0, !.lastMonthlyReset = Today.month]
        ELSE d

\* limit assertions whose daily check leaves the amount out
LimitExceeded_mut(l, amount) ==
    \/ l.dailyUsed > l.dailyLimit
    \/ l.monthlyUsed + amount > l.monthlyLimit

\* validateTransferLimits: the two limit assertions
LimitExceeded(l, amount) ==
    \/ l.dailyUsed + amount > l.dailyLimit
    \/ l.monthlyUsed + amount > l.monthlyLimit

\* validateTransferLimits: findOne, resets, assertions (throws before the save)
LimitsRead(p) ==
    /\ pc[p] = "limits_read"
    /\ LET l == ResetLimits(limits[call[p].user])
       IN  IF LimitExceeded(l, call[p].amount)
           THEN Finish(p, ErrorResp("BadRequest:limit_exceeded"))
           ELSE /\ pc' = [pc EXCEPT ![p] = "limits_save"]
                /\ call' = [call EXCEPT ![p].lim = l]
    /\ UNCHANGED <<balance, wcache, lock, txs, limits, rcache, ecache, hcache,
                   faults, balance0, limits0, deposited>>

UsedOf(l) == <<l.dailyUsed, l.monthlyUsed>>

\* validateTransferLimits: transferLimitRepository.save(transferLimit)
LimitsSave(p) ==
    /\ pc[p] = "limits_save"
    /\ limits' = [limits EXCEPT ![call[p].user] = call[p].lim]
    /\ call' = [call EXCEPT ![p].changedUsage =
                  @ \/ UsedOf(call[p].lim) # UsedOf(limits[call[p].user])]
    /\ pc' = [pc EXCEPT ![p] = "create"]
    /\ UNCHANGED <<balance, wcache, lock, txs, rcache, ecache, hcache,
                   faults, balance0, limits0, deposited>>

\* TransferService.createTransactionRecord's row, then executeSaga's first
\* updateSagaState
NewTransferRow(c, id) ==
    [id |-> id, type |-> "TRANSFER", status |-> "PENDING",
     transferState |-> "INITIATED", key |-> c.key, src |-> c.src,
     dst |-> c.dst, amount |-> c.amount, user |-> c.user,
     retryCount |-> 0, errorCode |-> "", errorMessage |-> "",
     errorStep |-> NoVal,
     sagaStep |-> 0, sagaCompleted |-> <<>>, sagaCompensated |-> <<>>,
     reservedAmount |-> NoVal, completedAt |-> FALSE,
     sourceBalanceBefore |-> NoVal, sourceBalanceAfter |-> NoVal,
     destinationBalanceBefore |-> NoVal, destinationBalanceAfter |-> NoVal]

\* createTransactionRecord on a table without the unique index of idempotencyKey
CreateTx_mut(p) ==
    /\ pc[p] = "create"
    /\ txs' = Append(txs, NewTransferRow(call[p], Len(txs) + 1))
    /\ call' = [call EXCEPT ![p].tx = Len(txs) + 1, ![p].step = 0]
    /\ pc' = [pc EXCEPT ![p] = StepEntry(0)]
    /\ UNCHANGED <<balance, wcache, lock, limits, rcache, ecache, hcache,
                   faults, balance0, limits0, deposited>>

\* executeTransferSaga: createTransactionRecord (the insert fails on the unique
\* index of idempotencyKey) and the start of SagaService.executeSaga
CreateTx(p) ==
    /\ pc[p] = "create"
    /\ IF RowIdsByKey(call[p].key) # {}
       THEN /\ pc' = [pc EXCEPT ![p] = "store_failure"]
            /\ call' = [call EXCEPT ![p].error = "QueryFailed:duplicate_key"]
            /\ UNCHANGED txs
       ELSE /\ txs' = Append(txs, NewTransferRow(call[p], Len(txs) + 1))
            /\ call' = [call EXCEPT ![p].tx = Len(txs) + 1, ![p].step = 0]
            /\ pc' = [pc EXCEPT ![p] = StepEntry(0)]
    /\ UNCHANGED <<balance, wcache, lock, limits, rcache, ecache, hcache,
                   faults, balance0, limits0, deposited>>

\* transferFunds catch: IdempotencyService.storeFailure, then rethrow
StoreFailure(p) ==
    /\ pc[p] = "store_failure"
    /\ ecache' = [ecache EXCEPT ![call[p].key] = TRUE]
    /\ Finish(p, ErrorResp(call[p].error))
    /\ UNCHANGED <<balance, wcache, lock, txs, limits, rcache, hcache,
                   faults, balance0, limits0, deposited>>

\* ------------------------------------------------------------------ saga
\* setWalletBalanceWithVersion after getWalletBalanceWithVersion:
\* CacheService.setWalletBalanceWithVersion: an unconditional SETEX of
\* {balance, version, lastUpdated: now} over the entry e
VersionedEntry(e, bal, ver) ==
    [present |-> TRUE, balance |-> bal, version |-> ver, stale |-> FALSE,
     high |-> IF ver > e.high THEN ver ELSE e.high]

\* the cache write of the saga steps: getWalletBalanceWithVersion, then
\* setWalletBalanceWithVersion(bal, cachedData ? cachedData.version + 1 : 1)
BumpedEntry(e, bal) ==
    VersionedEntry(e, bal, IF e.present THEN e.version + 1 ELSE 1)

\* updateSagaState: the saga state and retry count written to the row, and
\* errorDetails = {message, stack, step, timestamp} (no errorCode) once a step
\* has thrown
SagaSaved(row, c) ==
    [row EXCEPT !.sagaStep = c.step, !.sagaCompleted = c.completedSteps,
                !.sagaCompensated = c.compensatedSteps,
                !.retryCount = c.retryCount,
                !.errorMessage = IF c.lastError # "" THEN c.lastError ELSE @,
                !.errorStep = IF c.lastError # "" THEN c.step ELSE @]

\* a catch that retries without counting the retry
StepFailed_mut(p, c, message) ==
    LET i == c.step
        e == [c EXCEPT !.error = message, !.lastError = message,
                       !.executions = @ + 1]
    IN  IF StepRetryable[i + 1] /\ c.retryCount < StepMaxRetries[i + 1]
        THEN LET r == [e EXCEPT !.stepRetries = @ + 1]
             IN  /\ call' = [call EXCEPT ![p] = r]
                 /\ txs' = [txs EXCEPT ![c.tx] = SagaSaved(@, r)]
                 /\ pc' = [pc EXCEPT ![p] = StepEntry(i)]
        ELSE /\ call' = [call EXCEPT ![p] = e]
             /\ txs' = txs
             /\ pc' = [pc EXCEPT ![p] = "comp_begin"]

\* executeSaga, catch (stepError): retry the step or start compensation
StepFailed(p, c, message) ==
    LET i == c.step
        e == [c EXCEPT !.error = message, !.lastError = message,
                       !.executions = @ + 1]
    IN  IF StepRetryable[i + 1] /\ c.retryCount < StepMaxRetries[i + 1]
        THEN LET r == [e EXCEPT !.retryCount = @ + 1, !.stepRetries = @ + 1]
             IN  /\ call' = [call EXCEPT ![p] = r]
                 /\ txs' = [txs EXCEPT ![c.tx] = SagaSaved(@, r)]
                 /\ pc' = [pc EXCEPT ![p] = StepEntry(i)]
        ELSE /\ call' = [call EXCEPT ![p] = e]
             /\ txs' = txs
             /\ pc' = [pc EXCEPT ![p] = "comp_begin"]

\* execute() returned, rows being the table after the step's own writes:
\* completedSteps.push, updateSagaState,
\* updateTransferState(getTransferStateForStep(i)), next step or completeSaga
StepReturns(p, c, rows) ==
    LET d == [c EXCEPT !.completedSteps = Append(@, StepNames[c.step + 1]),
                       !.executions = @ + 1, !.stepRetries = 0]
    IN  /\ txs' = [rows EXCEPT ![c.tx] =
                     [SagaSaved(@, d) EXCEPT
                         !.transferState = getTransferStateForStep(c.step)]]
        /\ IF c.step + 1 < NumSteps
           THEN /\ call' = [call EXCEPT ![p] = [d EXCEPT !.step = @ + 1]]
                /\ pc' = [pc EXCEPT ![p] = StepEntry(c.step + 1)]
           ELSE /\ call' = [call EXCEPT ![p] = d]
                /\ pc' = [pc EXCEPT ![p] = "complete"]

\* SagaService.validateTransfer
SagaValidate(p) ==
    /\ pc[p] = "s_validate"
    /\ LET c == call[p]
       IN  IF ~WalletActive[c.src]
           THEN StepFailed(p, c, "Source wallet not found or inactive")
           ELSE IF ~WalletActive[c.dst]
           THEN StepFailed(p, c, "Destination wallet not found or inactive")
           ELSE IF WalletCurrency[c.src] # WalletCurrency[c.dst]
           THEN StepFailed(p, c, "Currency mismatch between wallets")
           ELSE StepReturns(p, c, txs)
    /\ UNCHANGED <<balance, wcache, lock, limits, rcache, ecache, hcache,
                   faults, balance0, limits0, deposited>>

\* SagaService.reserveFunds
SagaReserve(p) ==
    /\ pc[p] = "s_reserve"
    /\ StepReturns(p, call[p],
                   [txs EXCEPT ![call[p].tx].reservedAmount = call[p].amount])
    /\ UNCHANGED <<balance, wcache, lock, limits, rcache, ecache, hcache,
                   faults, balance0, limits0, deposited>>

\* SagaService.debitSourceWallet: findOne and the balance check
DebitRead(p) ==
    /\ pc[p] = "s_debit_read"
    /\ LET c == call[p]
       IN  IF balance[c.src] < c.amount
           THEN StepFailed(p, c, "Insufficient balance")
           ELSE /\ call' = [call EXCEPT ![p].sourceBalanceBefore = balance[c.src]]
                /\ pc' = [pc EXCEPT ![p] = "s_debit_update"]
                /\ UNCHANGED txs
    /\ UNCHANGED <<balance, wcache, lock, limits, rcache, ecache, hcache,
                   faults, balance0, limits0, deposited>>

\* SagaService.debitSourceWallet: update balance = balance - amount
DebitUpdate(p) ==
    /\ pc[p] = "s_debit_update"
    /\ balance' = [balance EXCEPT ![call[p].src] = @ - call[p].amount]
    /\ pc' = [pc EXCEPT ![p] = "s_debit_cache"]
    /\ UNCHANGED <<wcache, lock, txs, limits, rcache, ecache, hcache, call,
                   faults, balance0, limits0, deposited>>

\* SagaService.debitSourceWallet: the cache write of sourceWallet.balance - amount
DebitCache(p) ==
    /\ pc[p] = "s_debit_cache"
    /\ LET c == call[p]
       IN  wcache' = [wcache EXCEPT ![c.src] =
                         BumpedEntry(@, c.sourceBalanceBefore - c.amount)]
    /\ StepReturns(p, call[p], txs)
    /\ UNCHANGED <<balance, lock, limits, rcache, ecache, hcache,
                   faults, balance0, limits0, deposited>>

\* SagaService.creditDestinationWallet: findOne
CreditRead(p) ==
    /\ pc[p] = "s_credit_read"
    /\ call' = [call EXCEPT ![p].destinationBalanceBefore = balance[call[p].dst]]
    /\ pc' = [pc EXCEPT ![p] = "s_credit_update"]
    /\ UNCHANGED <<balance, wcache, lock, txs, limits, rcache, ecache, hcache,
                   faults, balance0, limits0, deposited>>

\* SagaService.creditDestinationWallet: update balance = balance + amount
CreditUpdate(p) ==
    /\ pc[p] = "s_credit_update"
    /\ balance' = [balance EXCEPT ![call[p].dst] = @ + call[p].amount]
    /\ pc' = [pc EXCEPT ![p] = "s_credit_cache"]
    /\ UNCHANGED <<wcache, lock, txs, limits, rcache, ecache, hcache, call,
                   faults, balance0, limits0, deposited>>

\* SagaService.creditDestinationWallet: the cache write
CreditCache(p) ==
    /\ pc[p] = "s_credit_cache"
    /\ LET c == call[p]
       IN  wcache' = [wcache EXCEPT ![c.dst] =
                         BumpedEntry(@, c.destinationBalanceBefore + c.amount)]
    /\ StepReturns(p, call[p], txs)
    /\ UNCHANGED <<balance, lock, limits, rcache, ecache, hcache,
                   faults, balance0, limits0, deposited>>

\* SagaService.finalizeTransfer
SagaFinalize(p) ==
    /\ pc[p] = "s_finalize"
    /\ LET c == call[p]
       IN  StepReturns(p, c,
              [txs EXCEPT ![c.tx] =
                 [@ EXCEPT !.sourceBalanceAfter = balance[c.src],
                           !.destinationBalanceAfter = balance[c.dst],
                           !.sourceBalanceBefore = c.sourceBalanceBefore,
                           !.destinationBalanceBefore =
                               c.destinationBalanceBefore]])
    /\ UNCHANGED <<balance, wcache, lock, limits, rcache, ecache, hcache,
                   faults, balance0, limits0, deposited>>

\* a store or cache call inside execute() throws (infrastructure failure)
StepFault(p) ==
    /\ pc[p] \in StepPcs
    /\ faults < MaxFaults
    /\ faults' = faults + 1
    /\ StepFailed(p, [call[p] EXCEPT !.faulted = TRUE], "infrastructure failure")
    /\ UNCHANGED <<balance, wcache, lock, limits, rcache, ecache, hcache,
                   balance0, limits0, deposited>>

\* SagaService.completeSaga
CompleteSaga(p) ==
    /\ pc[p] = "complete"
    /\ txs' = [txs EXCEPT ![call[p].tx] =
                 [@ EXCEPT !.status = "COMPLETED", !.transferState = "COMPLETED",
                           !.completedAt = TRUE]]
    /\ pc' = [pc EXCEPT ![p] = "usage_read"]
    /\ UNCHANGED <<balance, wcache, lock, limits, rcache, ecache, hcache, call,
                   faults, balance0, limits0, deposited>>

\* compensateSaga that walks the completed steps in execution order
CompBegin_mut(p) ==
    /\ pc[p] = "comp_begin"
    /\ LET c == call[p]
           d == [c EXCEPT !.todo = c.completedSteps]
       IN  /\ call' = [call EXCEPT ![p] = d]
           /\ txs' = [txs EXCEPT ![c.tx] =
                        [@ EXCEPT !.status = "FAILED",
                                  !.transferState = "COMPENSATION_PENDING",
                                  !.sagaCompleted = c.completedSteps,
                                  !.sagaStep = c.step]]
    /\ pc' = [pc EXCEPT ![p] = "comp"]
    /\ UNCHANGED <<balance, wcache, lock, limits, rcache, ecache, hcache,
                   faults, balance0, limits0, deposited>>

\* compensateSaga: status FAILED, state COMPENSATION_PENDING, and
\* sagaState.completedSteps.reverse(), which reverses the array in place.
\* The two saves (lines 125-126) precede the reverse (line 129), so the row
\* still holds the list in execution order until the save at the end
CompBegin(p) ==
    /\ pc[p] = "comp_begin"
    /\ LET c == call[p]
           d == [c EXCEPT !.completedSteps = Reverse(@),
                          !.todo = Reverse(c.completedSteps)]
       IN  /\ call' = [call EXCEPT ![p] = d]
           /\ txs' = [txs EXCEPT ![c.tx] =
                        [@ EXCEPT !.status = "FAILED",
                                  !.transferState = "COMPENSATION_PENDING",
                                  !.sagaCompleted = c.completedSteps,
                                  !.sagaStep = c.step]]
    /\ pc' = [pc EXCEPT ![p] = "comp"]
    /\ UNCHANGED <<balance, wcache, lock, limits, rcache, ecache, hcache,
                   faults, balance0, limits0, deposited>>

\* compensate() returned: compensatedSteps.push, next completed step
Compensated(p, c) ==
    /\ call' = [call EXCEPT ![p] =
                  [c EXCEPT !.compensatedSteps = Append(@, Head(c.todo)),
                            !.invoked = Append(@, <<Head(c.todo), TRUE>>),
                            !.todo = Tail(@)]]
    /\ pc' = [pc EXCEPT ![p] = "comp"]

\* compensateSaga loop: step.compensate() of the next completed step
CompNext(p) ==
    /\ pc[p] = "comp"
    /\ call[p].todo # <<>>
    /\ LET c == call[p]
           name == Head(c.todo)
       IN  CASE name = "reserve_funds" ->
                  \* releaseReservedFunds
                  /\ txs' = [txs EXCEPT ![c.tx].reservedAmount =
                               IF @ # NoVal /\ @ # 0 THEN NoVal ELSE @]
                  /\ Compensated(p, c)
             [] name = "debit_source_wallet" ->
                  /\ pc' = [pc EXCEPT ![p] = "c_src_update"]
                  /\ UNCHANGED <<call, txs>>
             [] name = "credit_destination_wallet" ->
                  /\ pc' = [pc EXCEPT ![p] = "c_dst_update"]
                  /\ UNCHANGED <<call, txs>>
             [] OTHER ->
                  /\ Compensated(p, c)
                  /\ UNCHANGED txs
    /\ UNCHANGED <<balance, wcache, lock, limits, rcache, ecache, hcache,
                   faults, balance0, limits0, deposited>>

\* SagaService.creditSourceWallet: update balance = balance + amount
CreditSourceUpdate(p) ==
    /\ pc[p] = "c_src_update"
    /\ balance' = [balance EXCEPT ![call[p].src] = @ + call[p].amount]
    /\ pc' = [pc EXCEPT ![p] = "c_src_cache"]
    /\ UNCHANGED <<wcache, lock, txs, limits, rcache, ecache, hcache, call,
                   faults, balance0, limits0, deposited>>

\* SagaService.creditSourceWallet: findOne and the cache write
CreditSourceCache(p) ==
    /\ pc[p] = "c_src_cache"
    /\ wcache' = [wcache EXCEPT ![call[p].src] =
                     BumpedEntry(@, balance[call[p].src])]
    /\ Compensated(p, call[p])
    /\ UNCHANGED <<balance, lock, txs, limits, rcache, ecache, hcache,
                   faults, balance0, limits0, deposited>>

\* SagaService.debitDestinationWallet: update balance = balance - amount
DebitDestinationUpdate(p) ==
    /\ pc[p] = "c_dst_update"
    /\ balance' = [balance EXCEPT ![call[p].dst] = @ - call[p].amount]
    /\ pc' = [pc EXCEPT ![p] = "c_dst_cache"]
    /\ UNCHANGED <<wcache, lock, txs, limits, rcache, ecache, hcache, call,
                   faults, balance0, limits0, deposited>>

\* SagaService.debitDestinationWallet: findOne and the cache write
DebitDestinationCache(p) ==
    /\ pc[p] = "c_dst_cache"
    /\ wcache' = [wcache EXCEPT ![call[p].dst] =
                     BumpedEntry(@, balance[call[p].dst])]
    /\ Compensated(p, call[p])
    /\ UNCHANGED <<balance, lock, txs, limits, rcache, ecache, hcache,
                   faults, balance0, limits0, deposited>>

\* compensateSaga whose caller goes on to updateTransferLimitsUsage
CompEnd_mut(p) ==
    /\ pc[p] = "comp"
    /\ call[p].todo = <<>>
    /\ txs' = [txs EXCEPT ![call[p].tx] =
                 [SagaSaved(@, call[p]) EXCEPT !.transferState = "COMPENSATED"]]
    /\ pc' = [pc EXCEPT ![p] = "usage_read"]
    /\ UNCHANGED <<balance, wcache, lock, limits, rcache, ecache, hcache, call,
                   faults, balance0, limits0, deposited>>

\* compensateSaga end: state COMPENSATED, updateSagaState; executeSaga rethrows
CompEnd(p) ==
    /\ pc[p] = "comp"
    /\ call[p].todo = <<>>
    /\ txs' = [txs EXCEPT ![call[p].tx] =
                 [SagaSaved(@, call[p]) EXCEPT !.transferState = "COMPENSATED"]]
    /\ pc' = [pc EXCEPT ![p] = "store_failure"]
    /\ UNCHANGED <<balance, wcache, lock, limits, rcache, ecache, hcache, call,
                   faults, balance0, limits0, deposited>>

\* ------------------------------------------------------------------ usage
\* updateTransferLimitsUsage: findOne
UsageRead(p) ==
    /\ pc[p] = "usage_read"
    /\ call' = [call EXCEPT ![p].lim = limits[call[p].user]]
    /\ pc' = [pc EXCEPT ![p] = "usage_save"]
    /\ UNCHANGED <<balance, wcache, lock, txs, limits, rcache, ecache, hcache,
                   faults, balance0, limits0, deposited>>

\* updateTransferLimitsUsage that forgets the monthly counter
AdvanceUsage_mut(l, amount) ==
    [l EXCEPT !.dailyUsed = @ + amount]

\* updateTransferLimitsUsage: the entity with both counters advanced
AdvanceUsage(l, amount) ==
    [l EXCEPT !.dailyUsed = @ + amount, !.monthlyUsed = @ + amount]

\* updateTransferLimitsUsage: save
UsageSave(p) ==
    /\ pc[p] = "usage_save"
    /\ LET c == call[p]
           l == AdvanceUsage(c.lim, c.amount)
       IN  /\ limits' = [limits EXCEPT ![c.user] = l]
           /\ call' = [call EXCEPT ![p].changedUsage =
                         @ \/ UsedOf(l) # UsedOf(limits[c.user]),
                                   ![p].advancedUsage = TRUE]
    /\ pc' = [pc EXCEPT ![p] = "store_result"]
    /\ UNCHANGED <<balance, wcache, lock, txs, rcache, ecache, hcache,
                   faults, balance0, limits0, deposited>>

\* executeTransferSaga returns the response; transferFunds: storeResult
StoreResult(p) ==
    /\ pc[p] = "store_result"
    /\ LET result == mapToTransferResponseDto(txs[call[p].tx])
       IN  /\ rcache' = [rcache EXCEPT ![call[p].key] = result]
           /\ Finish(p, result)
    /\ UNCHANGED <<balance, wcache, lock, txs, limits, ecache, hcache,
                   faults, balance0, limits0, deposited>>

\* ------------------------------------------------------------------ addFunds
\* the addFunds requests a caller may submit (walletId, caller, AddFundsDto)
AddFundsRequests ==
    {[user |-> WalletOwner[w], wallet |-> w, amount |-> 1] : w \in {"w1", "w2"}}
    \cup {[user |-> "u2", wallet |-> "w1", amount |-> 1]}

StartAddFunds(p) ==
    /\ pc[p] = "idle"
    /\ FirstIdle(p)
    /\ \E r \in AddFundsRequests :
          call' = [call EXCEPT ![p] =
                     [Idle EXCEPT !.op = "addFunds", !.cid = Cid[p],
                                  !.user = r.user, !.dst = r.wallet,
                                  !.amount = r.amount]]
    /\ pc' = [pc EXCEPT ![p] = "af_lock"]
    /\ UNCHANGED <<balance, wcache, lock, txs, limits, rcache, ecache, hcache,
                   faults, balance0, limits0, deposited>>

\* WalletService.addFunds: the amount check, then CacheService.withWalletLock /
\* acquireWalletLock (SET NX); the lease token is fresh for every call
AddFundsLock(p) ==
    /\ pc[p] = "af_lock"
    /\ LET c == call[p]
       IN  IF c.amount <= 0
           THEN Finish(p, ErrorResp("BadRequest:amount_not_positive"))
                /\ UNCHANGED lock
           ELSE IF lock[c.dst] # 0
           THEN Finish(p, ErrorResp("Error:unable_to_acquire_lock"))
                /\ UNCHANGED lock
           ELSE /\ lock' = [lock EXCEPT ![c.dst] = c.cid]
                /\ pc' = [pc EXCEPT ![p] = "af_find"]
                /\ UNCHANGED call
    /\ UNCHANGED <<balance, wcache, txs, limits, rcache, ecache, hcache,
                   faults, balance0, limits0, deposited>>

\* addFunds whose findOne leaves the owner out of its where clause
AddFundsFind_mut(p) ==
    /\ pc[p] = "af_find"
    /\ LET c == call[p]
       IN  IF ~WalletActive[c.dst]
           THEN /\ call' = [call EXCEPT ![p].error = "NotFound:wallet"]
                /\ pc' = [pc EXCEPT ![p] = "af_release"]
           ELSE /\ call' = [call EXCEPT ![p].version =
                              (IF wcache[c.dst].present
                               THEN wcache[c.dst].version ELSE 0) + 1]
                /\ pc' = [pc EXCEPT ![p] = "af_commit"]
    /\ UNCHANGED <<balance, wcache, lock, txs, limits, rcache, ecache, hcache,
                   faults, balance0, limits0, deposited>>

\* addFunds under the lease: findOne(id, userId, isActive), then the cache
\* read that fixes newVersion = (cachedData ? cachedData.version : 0) + 1
AddFundsFind(p) ==
    /\ pc[p] = "af_find"
    /\ LET c == call[p]
       IN  IF ~(WalletOwner[c.dst] = c.user /\ WalletActive[c.dst])
           THEN /\ call' = [call EXCEPT ![p].error = "NotFound:wallet"]
                /\ pc' = [pc EXCEPT ![p] = "af_release"]
           ELSE /\ call' = [call EXCEPT ![p].version =
                              (IF wcache[c.dst].present
                               THEN wcache[c.dst].version ELSE 0) + 1]
                /\ pc' = [pc EXCEPT ![p] = "af_commit"]
    /\ UNCHANGED <<balance, wcache, lock, txs, limits, rcache, ecache, hcache,
                   faults, balance0, limits0, deposited>>

\* the COMPLETED DEPOSIT row of addFunds
NewDepositRow(c, id) ==
    [NewTransferRow(c, id) EXCEPT !.type = "DEPOSIT", !.status = "COMPLETED",
                                  !.transferState = "", !.key = NoKey]

\* addFunds: the store transaction (balance = balance + amount, the DEPOSIT
\* row, the read of the updated wallet), visible to others at its commit
AddFundsCommit(p) ==
    /\ pc[p] = "af_commit"
    /\ LET c == call[p]
       IN  /\ balance' = [balance EXCEPT ![c.dst] = @ + c.amount]
           /\ txs' = Append(txs, NewDepositRow(c, Len(txs) + 1))
           /\ call' = [call EXCEPT ![p].updatedBalance = balance[c.dst] + c.amount]
           /\ deposited' = [deposited EXCEPT ![c.dst] = @ + c.amount]
    /\ pc' = [pc EXCEPT ![p] = "af_cache"]
    /\ UNCHANGED <<wcache, lock, limits, rcache, ecache, hcache,
                   faults, balance0, limits0>>

\* addFunds: setWalletBalanceWithVersion(updatedWallet.balance, newVersion)
AddFundsCache(p) ==
    /\ pc[p] = "af_cache"
    /\ LET c == call[p]
       IN  wcache' = [wcache EXCEPT ![c.dst] =
                         VersionedEntry(@, c.updatedBalance, c.version)]
    /\ pc' = [pc EXCEPT ![p] = "af_release"]
    /\ UNCHANGED <<balance, lock, txs, limits, rcache, ecache, hcache, call,
                   faults, balance0, limits0, deposited>>

\* a release that deletes the lease whatever token it holds
releaseWalletLock_mut(l, w, token) ==
    [l EXCEPT ![w] = 0]

\* CacheService.releaseWalletLock: delete the lease only if it holds our token
releaseWalletLock(l, w, token) ==
    IF l[w] = token THEN [l EXCEPT ![w] = 0] ELSE l

\* withWalletLock, finally: release, then return or rethrow
AddFundsRelease(p) ==
    /\ pc[p] = "af_release"
    /\ LET c == call[p]
       IN  /\ lock' = releaseWalletLock(lock, c.dst, c.cid)
           /\ Finish(p, IF c.error # "" THEN ErrorResp(c.error)
                        ELSE [kind |-> "wallet", id |-> c.dst,
                              balance |-> c.updatedBalance])
    /\ UNCHANGED <<balance, wcache, txs, limits, rcache, ecache, hcache,
                   faults, balance0, limits0, deposited>>

\* ------------------------------------------------------------------ environment
\* the TTL (1 h) of a result entry idempotency:{key} runs out
ResultExpires(k) ==
    /\ rcache[k].kind # "none"
    /\ rcache' = [rcache EXCEPT ![k] = NoResult]
    /\ UNCHANGED <<balance, wcache, lock, txs, limits, ecache, hcache, pc, call,
                   faults, balance0, limits0, deposited>>

\* ------------------------------------------------------------------ Next
\* The service without infrastructure failures.  The only step that throws
\* here is debit_source_wallet ('Insufficient funds'), so the compensations
\* of the debit and of the credit (creditSourceWallet, debitDestinationWallet)
\* are never due; they are actions of NextF below.
Next ==
    \/ \E p \in Procs : StartTransfer(p)
    \/ \E p \in Procs : Gate(p)
    \/ \E p \in Procs : ValidateRequest(p)
    \/ \E p \in Procs : LimitsRead(p)
    \/ \E p \in Procs : LimitsSave(p)
    \/ \E p \in Procs : CreateTx(p)
    \/ \E p \in Procs : SagaValidate(p)
    \/ \E p \in Procs : SagaReserve(p)
    \/ \E p \in Procs : DebitRead(p)
    \/ \E p \in Procs : DebitUpdate(p)
    \/ \E p \in Procs : DebitCache(p)
    \/ \E p \in Procs : CreditRead(p)
    \/ \E p \in Procs : CreditUpdate(p)
    \/ \E p \in Procs : CreditCache(p)
    \/ \E p \in Procs : SagaFinalize(p)
    \/ \E p \in Procs : CompleteSaga(p)
    \/ \E p \in Procs : CompBegin(p)
    \/ \E p \in Procs : CompNext(p)
    \/ \E p \in Procs : CompEnd(p)
    \/ \E p \in Procs : UsageRead(p)
    \/ \E p \in Procs : UsageSave(p)
    \/ \E p \in Procs : StoreResult(p)
    \/ \E p \in Procs : StoreFailure(p)
    \/ \E p \in Procs : StartAddFunds(p)
    \/ \E p \in Procs : AddFundsLock(p)
    \/ \E p \in Procs : AddFundsFind(p)
    \/ \E p \in Procs : AddFundsCommit(p)
    \/ \E p \in Procs : AddFundsCache(p)
    \/ \E p \in Procs : AddFundsRelease(p)
    \/ \E k \in Keys : ResultExpires(k)

Spec == Init /\ [][Next]_vars

\* ------------------------------------------------------------------ failures
\* Transfers whose saga steps may throw: the callers send valid requests
\* without a key
ValidRequests == {r \in Requests : r.src # r.dst /\ r.user = WalletOwner[r.src]
                                   /\ WalletCurrency[r.src] = WalletCurrency[r.dst]}

StartTransferF(p) == StartWith(p, ValidRequests, {NoKey})

NextF ==
    \/ \E p \in Procs : StartTransferF(p)
    \/ \E p \in Procs : Gate(p)
    \/ \E p \in Procs : ValidateRequest(p)
    \/ \E p \in Procs : LimitsRead(p)
    \/ \E p \in Procs : LimitsSave(p)
    \/ \E p \in Procs : CreateTx(p)
    \/ \E p \in Procs : SagaValidate(p)
    \/ \E p \in Procs : SagaReserve(p)
    \/ \E p \in Procs : DebitRead(p)
    \/ \E p \in Procs : DebitUpdate(p)
    \/ \E p \in Procs : DebitCache(p)
    \/ \E p \in Procs : CreditRead(p)
    \/ \E p \in Procs : CreditUpdate(p)
    \/ \E p \in Procs : CreditCache(p)
    \/ \E p \in Procs : SagaFinalize(p)
    \/ \E p \in Procs : StepFault(p)
    \/ \E p \in Procs : CompleteSaga(p)
    \/ \E p \in Procs : CompBegin(p)
    \/ \E p \in Procs : CompNext(p)
    \/ \E p \in Procs : CreditSourceUpdate(p)
    \/ \E p \in Procs : CreditSourceCache(p)
    \/ \E p \in Procs : DebitDestinationUpdate(p)
    \/ \E p \in Procs : DebitDestinationCache(p)
    \/ \E p \in Procs : CompEnd(p)
    \/ \E p \in Procs : UsageRead(p)
    \/ \E p \in Procs : UsageSave(p)
    \/ \E p \in Procs : StoreResult(p)
    \/ \E p \in Procs : StoreFailure(p)

SpecF == Init /\ [][NextF]_vars

\* ------------------------------------------------------------------ retries
\* A client that resubmits a failed request under its key, and an outage in
\* which call after call to the store throws.  Worker p1 sends its request
\* under the key k1, worker p2 under a generated key; the outage strikes only
\* while a worker runs alone.
Alone(p) == \A q \in Procs \ {p} : pc[q] = "idle"

StartTransferR(p) ==
    /\ p = "p2" => faults = 0
    /\ StartWith(p, ValidRequests, IF p = "p1" THEN {"k1"} ELSE {NoKey})

\* the client sends the request that ended in an error again, under its key
Resubmit(p) ==
    /\ pc[p] = "done"
    /\ call[p].op = "transfer"
    /\ call[p].resp.kind = "error"
    /\ ~IsAutoKey(call[p].key)
    /\ call[p].resubmits < MaxResubmits
    /\ call' = [call EXCEPT ![p] =
                  [Idle EXCEPT !.op = "transfer", !.cid = call[p].cid,
                               !.user = call[p].user, !.src = call[p].src,
                               !.dst = call[p].dst, !.amount = call[p].amount,
                               !.key = call[p].key,
                               !.resubmits = call[p].resubmits + 1]]
    /\ pc' = [pc EXCEPT ![p] = "gate"]
    /\ UNCHANGED <<balance, wcache, lock, txs, limits, rcache, ecache, hcache,
                   faults, balance0, limits0, deposited>>

\* a store or cache call inside execute() throws during the outage
StepFaultR(p) ==
    /\ Alone(p)
    /\ pc[p] \in StepPcs
    /\ faults < MaxOutage
    /\ faults' = faults + 1
    /\ StepFailed(p, [call[p] EXCEPT !.faulted = TRUE], "infrastructure failure")
    /\ UNCHANGED <<balance, wcache, lock, limits, rcache, ecache, hcache,
                   balance0, limits0, deposited>>

\* completeSaga: one of its three saves throws after `saved` of them went
\* through (updateTransactionStatus(COMPLETED), updateTransferState(COMPLETED),
\* completedAt); executeSaga's catch starts compensateSaga
\* (sagaState.lastError is set by failed steps only)
CompleteSagaThrows(p) ==
    /\ pc[p] = "complete"
    /\ Alone(p)
    /\ faults < MaxOutage
    /\ faults' = faults + 1
    /\ \E saved \in 0 .. 2 :
         txs' = [txs EXCEPT ![call[p].tx] =
                   [@ EXCEPT !.status = IF saved >= 1 THEN "COMPLETED" ELSE @,
                             !.transferState =
                                 IF saved >= 2 THEN "COMPLETED" ELSE @]]
    /\ call' = [call EXCEPT ![p].error = "infrastructure failure",
                            ![p].faulted = TRUE]
    /\ pc' = [pc EXCEPT ![p] = "comp_begin"]
    /\ UNCHANGED <<balance, wcache, lock, limits, rcache, ecache, hcache,
                   balance0, limits0, deposited>>

\* updateTransferLimitsUsage: the save throws; executeTransferSaga's catch
\* rethrows into the catch of transferFunds
UsageSaveThrows(p) ==
    /\ pc[p] = "usage_save"
    /\ Alone(p)
    /\ faults < MaxOutage
    /\ faults' = faults + 1
    /\ call' = [call EXCEPT ![p].error = "infrastructure failure",
                            ![p].faulted = TRUE]
    /\ pc' = [pc EXCEPT ![p] = "store_failure"]
    /\ UNCHANGED <<balance, wcache, lock, txs, limits, rcache, ecache, hcache,
                   balance0, limits0, deposited>>

NextR ==
    \/ \E p \in Procs : StartTransferR(p)
    \/ \E p \in Procs : Resubmit(p)
    \/ \E p \in Procs : Gate(p)
    \/ \E p \in Procs : ValidateRequest(p)
    \/ \E p \in Procs : LimitsRead(p)
    \/ \E p \in Procs : LimitsSave(p)
    \/ \E p \in Procs : CreateTx(p)
    \/ \E p \in Procs : SagaValidate(p)
    \/ \E p \in Procs : SagaReserve(p)
    \/ \E p \in Procs : DebitRead(p)
    \/ \E p \in Procs : DebitUpdate(p)
    \/ \E p \in Procs : DebitCache(p)
    \/ \E p \in Procs : CreditRead(p)
    \/ \E p \in Procs : CreditUpdate(p)
    \/ \E p \in Procs : CreditCache(p)
    \/ \E p \in Procs : SagaFinalize(p)
    \/ \E p \in Procs : StepFaultR(p)
    \/ \E p \in Procs : CompleteSaga(p)
    \/ \E p \in Procs : CompleteSagaThrows(p)
    \/ \E p \in Procs : CompBegin(p)
    \/ \E p \in Procs : CompNext(p)
    \/ \E p \in Procs : CreditSourceUpdate(p)
    \/ \E p \in Procs : CreditSourceCache(p)
    \/ \E p \in Procs : DebitDestinationUpdate(p)
    \/ \E p \in Procs : DebitDestinationCache(p)
    \/ \E p \in Procs : CompEnd(p)
    \/ \E p \in Procs : UsageRead(p)
    \/ \E p \in Procs : UsageSave(p)
    \/ \E p \in Procs : UsageSaveThrows(p)
    \/ \E p \in Procs : StoreResult(p)
    \/ \E p \in Procs : StoreFailure(p)

SpecR == Init /\ [][NextR]_vars

\* compensateSaga, catch (compensationError): step.compensate() throws, before
\* its update or after it (at the findOne or the cache write); the error is
\* logged, the step is not pushed to compensatedSteps, the loop goes on
CompensationThrows(p) ==
    /\ \/ pc[p] = "comp" /\ call[p].todo # <<>>
       \/ pc[p] \in {"c_src_cache", "c_dst_cache"}
    /\ Alone(p)
    /\ faults < MaxOutage
    /\ faults' = faults + 1
    /\ call' = [call EXCEPT ![p] =
                  [@ EXCEPT !.invoked = Append(@, <<Head(call[p].todo), FALSE>>),
                            !.todo = Tail(@), !.faulted = TRUE]]
    /\ pc' = [pc EXCEPT ![p] = "comp"]
    /\ UNCHANGED <<balance, wcache, lock, txs, limits, rcache, ecache, hcache,
                   balance0, limits0, deposited>>

\* the saga under every failure the coordinator handles: steps, completeSaga
\* and compensations that throw
NextS ==
    \/ NextR
    \/ \E p \in Procs : CompensationThrows(p)

SpecS == Init /\ [][NextS]_vars

\* positions inside executeSaga, from the first step to the end of
\* completeSaga or compensateSaga
SagaPcs == StepPcs \cup {"complete", "comp_begin", "comp", "c_src_update",
                         "c_src_cache", "c_dst_update", "c_dst_cache"}

\* the next awaited call of executeSaga returns
SagaStep(p) ==
    \/ SagaValidate(p) \/ SagaReserve(p)
    \/ DebitRead(p) \/ DebitUpdate(p) \/ DebitCache(p)
    \/ CreditRead(p) \/ CreditUpdate(p) \/ CreditCache(p)
    \/ SagaFinalize(p) \/ CompleteSaga(p)
    \/ CompBegin(p) \/ CompNext(p)
    \/ CreditSourceUpdate(p) \/ CreditSourceCache(p)
    \/ DebitDestinationUpdate(p) \/ DebitDestinationCache(p)
    \/ CompEnd(p)

\* every awaited repository, cache or step call of a running saga settles:
\* it returns or throws
SpecT == Init /\ [][NextS]_vars /\ \A p \in Procs : WF_vars(SagaStep(p))

\* ------------------------------------------------------------------ wallet layer
\* The wallet operations on their own: addFunds and getWalletBalance, with
\* store and cache calls that may throw, leases that run out (TTL 30 s for
\* addFunds, 5 s for getWalletBalance) and balance entries that age (60 s)
\* and expire (TTL 300 s).
AddFundsRequestsW ==
    AddFundsRequests \cup {[user |-> "u1", wallet |-> "w1", amount |-> 0]}

StartAddFundsW(p) ==
    /\ pc[p] = "idle"
    /\ FirstIdle(p)
    /\ \E r \in AddFundsRequestsW :
          call' = [call EXCEPT ![p] =
                     [Idle EXCEPT !.op = "addFunds", !.cid = Cid[p],
                                  !.user = r.user, !.dst = r.wallet,
                                  !.amount = r.amount]]
    /\ pc' = [pc EXCEPT ![p] = "af_lock"]
    /\ UNCHANGED <<balance, wcache, lock, txs, limits, rcache, ecache, hcache,
                   faults, balance0, limits0, deposited>>

\* addFunds whose failed store transaction leaves its balance update behind
AddFundsCommitFails_mut(p) ==
    /\ pc[p] = "af_commit"
    /\ faults < MaxFaults
    /\ faults' = faults + 1
    /\ balance' = [balance EXCEPT ![call[p].dst] = @ + call[p].amount]
    /\ call' = [call EXCEPT ![p].error = "Error:store_failure",
                            ![p].faulted = TRUE]
    /\ pc' = [pc EXCEPT ![p] = "af_release"]
    /\ UNCHANGED <<wcache, lock, txs, limits, rcache, ecache, hcache,
                   balance0, limits0, deposited>>

\* addFunds: a statement of the store transaction throws before the commit;
\* catch: rollbackTransaction, rethrow
AddFundsCommitFails(p) ==
    /\ pc[p] = "af_commit"
    /\ faults < MaxFaults
    /\ faults' = faults + 1
    /\ balance' = balance
    /\ call' = [call EXCEPT ![p].error = "Error:store_failure",
                            ![p].faulted = TRUE]
    /\ pc' = [pc EXCEPT ![p] = "af_release"]
    /\ UNCHANGED <<wcache, lock, txs, limits, rcache, ecache, hcache,
                   balance0, limits0, deposited>>

\* addFunds: setWalletBalanceWithVersion throws after commitTransaction;
\* catch: rollbackTransaction (nothing is left to roll back), rethrow
AddFundsCacheFails(p) ==
    /\ pc[p] = "af_cache"
    /\ faults < MaxFaults
    /\ faults' = faults + 1
    /\ call' = [call EXCEPT ![p].error = "Error:cache_failure",
                            ![p].faulted = TRUE]
    /\ pc' = [pc EXCEPT ![p] = "af_release"]
    /\ UNCHANGED <<balance, wcache, lock, txs, limits, rcache, ecache, hcache,
                   balance0, limits0, deposited>>

\* the lease wallet_lock:{walletId} runs out (SET ... EX lockTtlSeconds)
LeaseExpires(w) ==
    /\ lock[w] # 0
    /\ lock' = [lock EXCEPT ![w] = 0]
    /\ UNCHANGED <<balance, wcache, txs, limits, rcache, ecache, hcache, pc,
                   call, faults, balance0, limits0, deposited>>

\* lastUpdated of the entry wallet_balance_v2:{walletId} becomes 60 s old
WalletCacheAges(w) ==
    /\ wcache[w].present
    /\ ~wcache[w].stale
    /\ wcache' = [wcache EXCEPT ![w].stale = TRUE]
    /\ UNCHANGED <<balance, lock, txs, limits, rcache, ecache, hcache, pc,
                   call, faults, balance0, limits0, deposited>>

\* the TTL (300 s) of the entry wallet_balance_v2:{walletId} runs out
WalletCacheExpires(w) ==
    /\ wcache[w].present
    /\ wcache[w].stale
    /\ wcache' = [wcache EXCEPT ![w] = [NoEntry EXCEPT !.high = wcache[w].high]]
    /\ UNCHANGED <<balance, lock, txs, limits, rcache, ecache, hcache, pc,
                   call, faults, balance0, limits0, deposited>>

\* the getWalletBalance requests a caller may submit (walletId, userId)
GetBalanceRequests ==
    {[user |-> "u1", wallet |-> "w1"], [user |-> "u2", wallet |-> "w1"]}

StartGetBalance(p) ==
    /\ pc[p] = "idle"
    /\ FirstIdle(p)
    /\ \E r \in GetBalanceRequests :
          call' = [call EXCEPT ![p] =
                     [Idle EXCEPT !.op = "getBalance", !.cid = Cid[p],
                                  !.user = r.user, !.dst = r.wallet]]
    /\ pc' = [pc EXCEPT ![p] = "gb_cache"]
    /\ UNCHANGED <<balance, wcache, lock, txs, limits, rcache, ecache, hcache,
                   faults, balance0, limits0, deposited>>

\* cachedData && cacheAge < 60000
CacheIsRecent(e) == e.present /\ ~e.stale

BalanceResp(bal) == [kind |-> "balance", balance |-> bal]

\* WalletService.getWalletBalance: the read of the cache without the lease
GetBalanceCache(p) ==
    /\ pc[p] = "gb_cache"
    /\ LET e == wcache[call[p].dst]
       IN  IF CacheIsRecent(e)
           THEN Finish(p, BalanceResp(e.balance))
           ELSE /\ pc' = [pc EXCEPT ![p] = "gb_lock"]
                /\ UNCHANGED call
    /\ UNCHANGED <<balance, wcache, lock, txs, limits, rcache, ecache, hcache,
                   faults, balance0, limits0, deposited>>

\* getWalletBalance: withWalletLock / acquireWalletLock (SET NX)
GetBalanceLock(p) ==
    /\ pc[p] = "gb_lock"
    /\ LET c == call[p]
       IN  IF lock[c.dst] # 0
           THEN Finish(p, ErrorResp("Error:unable_to_acquire_lock"))
                /\ UNCHANGED lock
           ELSE /\ lock' = [lock EXCEPT ![c.dst] = c.cid]
                /\ pc' = [pc EXCEPT ![p] = "gb_recheck"]
                /\ UNCHANGED call
    /\ UNCHANGED <<balance, wcache, txs, limits, rcache, ecache, hcache,
                   faults, balance0, limits0, deposited>>

\* getWalletBalance under the lease: the second cache read, findOne(id,
\* userId, isActive) and newVersion = reCheckCachedData ? version + 1 : 1
GetBalanceRecheck(p) ==
    /\ pc[p] = "gb_recheck"
    /\ LET c == call[p]
           e == wcache[c.dst]
       IN  IF CacheIsRecent(e)
           THEN /\ call' = [call EXCEPT ![p].updatedBalance = e.balance]
                /\ pc' = [pc EXCEPT ![p] = "gb_release"]
           ELSE IF ~(WalletOwner[c.dst] = c.user /\ WalletActive[c.dst])
           THEN /\ call' = [call EXCEPT ![p].error = "NotFound:wallet"]
                /\ pc' = [pc EXCEPT ![p] = "gb_release"]
           ELSE /\ call' = [call EXCEPT
                              ![p].updatedBalance = balance[c.dst],
                              ![p].version =
                                  IF e.present THEN e.version + 1 ELSE 1]
                /\ pc' = [pc EXCEPT ![p] = "gb_refresh"]
    /\ UNCHANGED <<balance, wcache, lock, txs, limits, rcache, ecache, hcache,
                   faults, balance0, limits0, deposited>>

\* getWalletBalance: setWalletBalanceWithVersion(wallet.balance, newVersion)
GetBalanceRefresh(p) ==
    /\ pc[p] = "gb_refresh"
    /\ LET c == call[p]
       IN  wcache' = [wcache EXCEPT ![c.dst] =
                         VersionedEntry(@, c.updatedBalance, c.version)]
    /\ pc' = [pc EXCEPT ![p] = "gb_release"]
    /\ UNCHANGED <<balance, lock, txs, limits, rcache, ecache, hcache, call,
                   faults, balance0, limits0, deposited>>

\* withWalletLock, finally: release, then return or rethrow
GetBalanceRelease(p) ==
    /\ pc[p] = "gb_release"
    /\ LET c == call[p]
       IN  /\ lock' = releaseWalletLock(lock, c.dst, c.cid)
           /\ Finish(p, IF c.error # "" THEN ErrorResp(c.error)
                        ELSE BalanceResp(c.updatedBalance))
    /\ UNCHANGED <<balance, wcache, txs, limits, rcache, ecache, hcache,
                   faults, balance0, limits0, deposited>>

NextW ==
    \/ \E p \in Procs : StartAddFundsW(p)
    \/ \E p \in Procs : AddFundsLock(p)
    \/ \E p \in Procs : AddFundsFind(p)
    \/ \E p \in Procs : AddFundsCommit(p)
    \/ \E p \in Procs : AddFundsCommitFails(p)
    \/ \E p \in Procs : AddFundsCache(p)
    \/ \E p \in Procs : AddFundsCacheFails(p)
    \/ \E p \in Procs : AddFundsRelease(p)
    \/ \E p \in Procs : StartGetBalance(p)
    \/ \E p \in Procs : GetBalanceCache(p)
    \/ \E p \in Procs : GetBalanceLock(p)
    \/ \E p \in Procs : GetBalanceRecheck(p)
    \/ \E p \in Procs : GetBalanceRefresh(p)
    \/ \E p \in Procs : GetBalanceRelease(p)
    \/ \E w \in Wallets : LeaseExpires(w)
    \/ \E w \in Wallets : WalletCacheAges(w)
    \/ \E w \in Wallets : WalletCacheExpires(w)

SpecW == Init /\ [][NextW]_vars

\* ------------------------------------------------------------------ ledger at a day change
\* The service started on a ledger whose daily reset is due while the month
\* is running: u1 used 2 yesterday and 3 this month.
InitLedgersL ==
    {[u \in Users |->
        IF u = "u1"
        THEN [dailyUsed |-> 2, monthlyUsed |-> 3,
              dailyLimit |-> DailyLimit, monthlyLimit |-> MonthlyLimit,
              lastDailyReset |-> Today.day - 1,
              lastMonthlyReset |-> Today.month]
        ELSE [dailyUsed |-> 0, monthlyUsed |-> 0,
              dailyLimit |-> DailyLimit, monthlyLimit |-> MonthlyLimit,
              lastDailyReset |-> Today.day, lastMonthlyReset |-> Today.month]]}

InitL ==
    /\ \E b1 \in 1..MaxBalance :
          balance = [w \in Wallets |->
                       IF w = "w1" THEN b1 ELSE IF w = "w2" THEN 1 ELSE 0]
    /\ wcache = [w \in Wallets |-> NoEntry]
    /\ lock = [w \in Wallets |-> 0]
    /\ txs = <<>>
    /\ limits \in InitLedgersL
    /\ rcache = [k \in Keys |-> NoResult]
    /\ ecache = [k \in Keys |-> FALSE]
    /\ hcache = [h \in Hashes |-> NoHash]
    /\ pc = [p \in Procs |-> "idle"]
    /\ call = [p \in Procs |-> Idle]
    /\ faults = 0
    /\ balance0 = balance
    /\ limits0 = limits
    /\ deposited = [w \in Wallets |-> 0]

SpecL == InitL /\ [][Next]_vars

\* ------------------------------------------------------------------ properties
Other(p) == CHOOSE q \in Procs : q # p

\* every worker is idle or has answered: no saga is running
AllTerminated == \A p \in Procs : pc[p] \in {"idle", "done"}

\* worker p has answered a transfer request
ReturnedTransfer(p) == pc[p] = "done" /\ call[p].op = "transfer"

\* the request passes validateTransferRequest in the initial state
ValidAtStart(c) ==
    /\ ValidateError(c, balance0) = "ok"
    /\ ~LimitExceeded(ResetLimits(limits0[c.user]), c.amount)

Total(bal) == SumOver(bal, Wallets)

\* C1: once every saga has terminated and nothing was deposited, the sum of
\* the stored balances equals the sum before the sagas started, also when
\* steps failed part-way (SpecF).
C1_Conservation ==
    (AllTerminated /\ \A w \in Wallets : deposited[w] = 0)
        => Total(balance) = Total(balance0)

\* C2: every wallet's stored balance is >= 0 in every reachable state.
C2_BalanceNonNegative == \A w \in Wallets : balance[w] >= 0

CompletedRowIds(k) == {i \in RowIdsByKey(k) : txs[i].status = "COMPLETED"}

\* C3: a transferFunds call whose gate runs when a COMPLETED transaction with
\* its key exists returns a result carrying that transaction's id, and changes
\* no balance, no transaction row and no limit ledger, whether the result
\* cache entry is present or has expired.
C3_ReplayReturnsSameTransaction ==
    [][\A p \in Procs :
         (pc[p] = "gate" /\ pc'[p] # "gate"
            /\ CompletedRowIds(call[p].key) # {})
         => /\ pc'[p] = "done"
            /\ call'[p].resp.kind = "result"
            /\ call'[p].resp.id \in CompletedRowIds(call[p].key)
            /\ balance' = balance
            /\ txs' = txs
            /\ limits' = limits]_vars

\* C3 witness: the first call has returned its result, and a repeated call
\* that found no result cache entry was answered from the transaction row.
C3_Witness ==
    \E p \in Procs :
        /\ ReturnedTransfer(p)
        /\ ReturnedTransfer(Other(p))
        /\ call[Other(p)].key = call[p].key
        /\ call[Other(p)].tx # 0
        /\ call[Other(p)].resp.kind = "result"
        /\ call[p].tx = 0
        /\ call[p].resp.kind = "result"
        /\ "transferState" \in DOMAIN call[p].resp
        /\ rcache[call[p].key].kind # "none"

SamePayload(c, d) ==
    /\ c.user = d.user /\ c.src = d.src /\ c.dst = d.dst /\ c.amount = d.amount

\* C4: when two transferFunds calls carrying the same key and the same valid
\* request have both returned (no other operation, no failure), exactly one
\* row with the key exists, it is COMPLETED, and the source was debited once
\* and the destination credited once.
C4_DuplicatesExecuteOnce ==
    LET c == call["p1"]
        d == call["p2"]
    IN  (/\ ReturnedTransfer("p1") /\ ReturnedTransfer("p2")
         /\ c.key = d.key /\ SamePayload(c, d) /\ ValidAtStart(c))
        => /\ Cardinality(RowIdsByKey(c.key)) = 1
           /\ Cardinality(CompletedRowIds(c.key)) = 1
           /\ balance[c.src] = balance0[c.src] - c.amount
           /\ balance[c.dst] = balance0[c.dst] + c.amount

\* C4 witness: both calls passed the gate; one completed the transfer, the
\* other lost the insert of the transaction row.
C4_Witness ==
    \E p \in Procs :
        /\ ReturnedTransfer(p) /\ ReturnedTransfer(Other(p))
        /\ call[p].key = call[Other(p)].key
        /\ SamePayload(call[p], call[Other(p)])
        /\ call[p].resp.kind = "result"
        /\ call[Other(p)].resp = ErrorResp("QueryFailed:duplicate_key")

\* the saga of worker p has terminated in failure
SagaFailed(p) ==
    /\ ReturnedTransfer(p)
    /\ call[p].tx # 0
    /\ call[p].resp.kind = "error"

\* C5: when a saga has failed and its compensations have run (no other
\* operation), both wallets hold their pre-transfer balances and the
\* transaction is FAILED / COMPENSATED.
C5_FailedSagaRestoresBalances ==
    \A p \in Procs :
        (SagaFailed(p) /\ pc[Other(p)] = "idle")
        => /\ balance[call[p].src] = balance0[call[p].src]
           /\ balance[call[p].dst] = balance0[call[p].dst]
           /\ txs[call[p].tx].status = "FAILED"
           /\ txs[call[p].tx].transferState = "COMPENSATED"

\* C6: a valid transfer of amount a, run alone and without failures, returns
\* COMPLETED, moves exactly a from the source to the destination and adds
\* exactly a to dailyUsed and monthlyUsed (counted from the due reset).
C6_HappyPath ==
    \A p \in Procs :
        (ReturnedTransfer(p) /\ pc[Other(p)] = "idle" /\ ValidAtStart(call[p]))
        => LET c == call[p]
               l == ResetLimits(limits0[c.user])
           IN  /\ c.resp.kind = "result"
               /\ c.resp.status = "COMPLETED"
               /\ balance[c.src] = balance0[c.src] - c.amount
               /\ balance[c.dst] = balance0[c.dst] + c.amount
               /\ limits[c.user].dailyUsed = l.dailyUsed + c.amount
               /\ limits[c.user].monthlyUsed = l.monthlyUsed + c.amount

\* C6 witness: a lone valid transfer has returned its result.
C6_Witness ==
    \E p \in Procs :
        /\ ReturnedTransfer(p) /\ pc[Other(p)] = "idle"
        /\ ValidAtStart(call[p])
        /\ call[p].resp.kind = "result"
        /\ limits0[call[p].user].lastDailyReset < Today.day

\* C7: every write of a wallet's stored balance is made by a worker that
\* holds the wallet's lease.
C7_WritesHoldLease ==
    [][\A w \in Wallets :
         balance'[w] # balance[w]
         => \E p \in Procs : pc'[p] # pc[p] /\ lock[w] = Cid[p]]_vars

\* C8: dailyUsed <= dailyLimit and monthlyUsed <= monthlyLimit for every user
\* in every reachable state.
C8_UsageWithinLimits ==
    \A u \in Users :
        /\ limits[u].dailyUsed <= limits[u].dailyLimit
        /\ limits[u].monthlyUsed <= limits[u].monthlyLimit

\* amounts of the user's transfers completed in this run
CompletedAmount(u) ==
    LET ids == {i \in DOMAIN txs : /\ txs[i].type = "TRANSFER"
                                   /\ txs[i].user = u
                                   /\ txs[i].status = "COMPLETED"}
    IN  SumOver([i \in ids |-> txs[i].amount], ids)

\* C9: when no call is in progress, the dailyUsed and monthlyUsed of a user
\* whose counters were reset today equal the usage before the run plus the
\* amounts of the user's COMPLETED transfers.
C9_UsageEqualsCompleted ==
    AllTerminated =>
        \A u \in Users :
            (limits0[u].lastDailyReset = Today.day
                /\ limits0[u].lastMonthlyReset = Today.month)
            => /\ limits[u].dailyUsed = limits0[u].dailyUsed + CompletedAmount(u)
               /\ limits[u].monthlyUsed =
                      limits0[u].monthlyUsed + CompletedAmount(u)

C11_LimitExceededRejected ==
    [][\A p \in Procs :
         LET c == call[p]
             l == ResetLimits(limits[c.user])
         IN  (/\ pc[p] = "limits_read" /\ pc'[p] # "limits_read"
              /\ \/ l.dailyUsed + c.amount > l.dailyLimit
                 \/ l.monthlyUsed + c.amount > l.monthlyLimit)
             => /\ pc'[p] = "done"
                /\ call'[p].resp = ErrorResp("BadRequest:limit_exceeded")
                /\ call'[p].tx = 0
                /\ ~call'[p].changedUsage
                /\ txs' = txs
                /\ limits' = limits
                /\ balance' = balance]_vars

\* C11 witness: a call was rejected by the limit check after the user had
\* used part of the limit in this run.
C11_Witness ==
    \E p \in Procs :
        /\ ReturnedTransfer(p)
        /\ call[p].resp = ErrorResp("BadRequest:limit_exceeded")
        /\ CompletedAmount(call[p].user) > 0

\* C12: a transferFunds call rejected for insufficient balance leaves a FAILED
\* transaction row with retryCount = 0 and error code insufficient_balance.
C12_InsufficientBalanceLeavesFailedRow ==
    \A p \in Procs :
        (ReturnedTransfer(p)
            /\ call[p].resp = ErrorResp("BadRequest:insufficient_balance"))
        => \E i \in RowIdsByKey(call[p].key) :
              /\ txs[i].status = "FAILED"
              /\ txs[i].retryCount = 0
              /\ txs[i].errorCode = "insufficient_balance"

\* the row findOne({ idempotencyKey }, order createdAt DESC) returns
LatestRow(k) == txs[Max(RowIdsByKey(k))]

\* C13: a transferFunds call whose gate finds a PENDING or PROCESSING row
\* with its key ends with Conflict and changes no balance, no transaction row
\* and no limit ledger.
C13_InFlightKeyConflicts ==
    [][\A p \in Procs :
         (/\ pc[p] = "gate" /\ pc'[p] # "gate"
          /\ RowIdsByKey(call[p].key) # {}
          /\ LatestRow(call[p].key).status \in {"PENDING", "PROCESSING"})
         => /\ pc'[p] = "done"
            /\ call'[p].resp = ErrorResp("Conflict:in_progress")
            /\ balance' = balance
            /\ txs' = txs
            /\ limits' = limits]_vars

\* C13 witness: a call was answered with Conflict while the transaction of
\* its key was still PENDING.
C13_Witness ==
    \E p \in Procs :
        /\ ReturnedTransfer(p)
        /\ call[p].resp = ErrorResp("Conflict:in_progress")
        /\ LatestRow(call[p].key).status = "PENDING"

\* C14: of two transferFunds calls with the same key and the same valid
\* request, the one that did not create the transaction row returns the
\* winner's COMPLETED result or Conflict.
C14_LoserGetsResultOrConflict ==
    \A p \in Procs :
        LET c == call[p]
            d == call[Other(p)]
        IN  (/\ ReturnedTransfer(p) /\ ReturnedTransfer(Other(p))
             /\ c.key = d.key /\ SamePayload(c, d) /\ ValidAtStart(c)
             /\ c.tx = 0 /\ d.tx # 0)
            => \/ /\ c.resp.kind = "result"
                  /\ c.resp.id = d.tx
                  /\ c.resp.status = "COMPLETED"
               \/ c.resp = ErrorResp("Conflict:in_progress")

\* error messages of the steps' business rejections
BusinessRejections ==
    {"Insufficient balance", "Source wallet not found or inactive",
     "Destination wallet not found or inactive",
     "Currency mismatch between wallets"}

\* C15: a transferFunds call whose gate finds a FAILED row with its key that
\* failed by a business rejection (here: with no failure injected), or whose
\* retryCount is >= 3, returns the failed outcome; no saga is executed and no
\* wallet is changed.
C15_FailedKeySeesVerdict ==
    [][\A p \in Procs :
         (/\ pc[p] = "gate" /\ pc'[p] # "gate"
          /\ RowIdsByKey(call[p].key) # {}
          /\ LatestRow(call[p].key).status = "FAILED"
          /\ \/ /\ LatestRow(call[p].key).errorMessage \in BusinessRejections
                /\ faults = 0
             \/ LatestRow(call[p].key).retryCount >= 3)
         => /\ pc'[p] = "done"
            /\ call'[p].resp = ErrorResp("BadRequest:transfer_failed")
            /\ balance' = balance
            /\ txs' = txs]_vars

\* C16: a transferFunds call that passed the gate on the key of a FAILED
\* transaction with retryCount < 3 and an infrastructure error, that met no
\* further failure and whose request is valid, ends with a COMPLETED
\* transaction for the key.
C16_RetryableKeyCompletes ==
    \A p \in Procs :
        (/\ ReturnedTransfer(p) /\ call[p].retried /\ ~call[p].faulted
         /\ Alone(p)
         /\ \E i \in RowIdsByKey(call[p].key) :
               /\ txs[i].errorMessage = "infrastructure failure"
               /\ txs[i].retryCount < 3
         /\ ValidateError(call[p], balance) = "ok"
         /\ ~LimitExceeded(ResetLimits(limits[call[p].user]), call[p].amount))
        => CompletedRowIds(call[p].key) # {}

\* worker q's request is in flight: it has passed the gate and not returned
InFlight(q) == call[q].op = "transfer" /\ pc[q] \notin {"idle", "gate", "done"}

\* C17: a transferFunds call with a caller-supplied key whose content hash
\* equals that of a request in flight under another caller-supplied key
\* ends with Conflict, at whatever point of the earlier request it arrives.
C17_SimilarInFlightConflicts ==
    [][\A p \in Procs :
         LET c == call[p]
             d == call[Other(p)]
         IN  (/\ pc[p] = "gate" /\ pc'[p] # "gate"
              /\ ~IsAutoKey(c.key) /\ ~IsAutoKey(d.key) /\ c.key # d.key
              /\ RowIdsByKey(c.key) = {} /\ rcache[c.key].kind = "none"
              /\ InFlight(Other(p))
              /\ createRequestHash(c) = createRequestHash(d))
             => /\ pc'[p] = "done"
                /\ call'[p].resp = ErrorResp("Conflict:similar_transfer")]_vars

\* C18: the response of a repeated call with a COMPLETED prior transaction
\* equals, field by field, the response the original call returned.
C18_ReplayEqualsOriginal ==
    \A p \in Procs :
        LET c == call[p]
            d == call[Other(p)]
        IN  (/\ ReturnedTransfer(p) /\ ReturnedTransfer(Other(p))
             /\ c.key = d.key
             /\ c.tx = 0 /\ c.resp.kind = "result"
             /\ d.tx # 0 /\ d.resp.kind = "result")
            => c.resp = d.resp

\* TransactionStatus values the spec calls terminal
TerminalStatuses == {"COMPLETED", "FAILED", "CANCELLED", "COMPENSATED"}

\* C19: no step changes the status of a row whose status is terminal.
C19_TerminalStatusStays ==
    [][\A i \in DOMAIN txs :
         txs[i].status \in TerminalStatuses
         => txs'[i].status = txs[i].status]_vars

\* C20: a failed saga ends FAILED; its sub-state is COMPENSATED when a
\* compensation ran, and is not COMPENSATED when step 0 was the step that
\* failed.
C20_FailedSagaSubState ==
    \A p \in Procs :
        SagaFailed(p)
        => LET row == txs[call[p].tx]
           IN  /\ row.status = "FAILED"
               /\ row.sagaCompensated # <<>>
                  => row.transferState = "COMPENSATED"
               /\ (row.sagaCompleted = <<>> /\ row.errorStep = 0)
                  => row.transferState # "COMPENSATED"

\* ------------------------------------------------------------------ C21..C30
\* C21: every COMPLETED transfer row has sourceBalanceAfter =
\* sourceBalanceBefore - amount and destinationBalanceAfter =
\* destinationBalanceBefore + amount, also when addFunds calls or other sagas
\* on the same wallets ran between its debit, credit and finalize steps.
C21_CompletedSnapshotsAgree ==
    \A i \in DOMAIN txs :
        (txs[i].type = "TRANSFER" /\ txs[i].status = "COMPLETED")
        => /\ txs[i].sourceBalanceAfter =
                  txs[i].sourceBalanceBefore - txs[i].amount
           /\ txs[i].destinationBalanceAfter =
                  txs[i].destinationBalanceBefore + txs[i].amount

\* no operation that names wallet w is in progress
NoOperationOn(w) ==
    \A p \in Procs : pc[p] \in {"idle", "done"} \/ w \notin {call[p].src, call[p].dst}

\* C22: whenever no operation on a wallet is in progress and the wallet has a
\* cache entry, the cached balance equals the stored balance.
C22_CacheAgreesWithStore ==
    \A w \in Wallets :
        (NoOperationOn(w) /\ wcache[w].present)
        => wcache[w].balance = balance[w]

\* a step writes the versioned balance entry of wallet w
CacheWritten(w) ==
    /\ wcache'[w].present
    /\ \/ ~wcache[w].present
       \/ wcache'[w].balance # wcache[w].balance
       \/ wcache'[w].version # wcache[w].version

\* C23: every write of a wallet's versioned balance entry stores a version
\* strictly greater than every version stored for that wallet before.
C23_VersionsStrictlyIncrease ==
    [][\A w \in Wallets :
         CacheWritten(w) => wcache'[w].version > wcache[w].high]_vars

\* the sum of the amounts of the addFunds calls on wallet w that returned the
\* wallet (success) to their callers
RECURSIVE ReportedDeposits(_, _)
ReportedDeposits(w, P) ==
    IF P = {} THEN 0
    ELSE LET p == CHOOSE q \in P : TRUE
         IN  (IF /\ pc[p] = "done" /\ call[p].op = "addFunds"
                    /\ call[p].dst = w /\ call[p].resp.kind = "wallet"
              THEN call[p].amount ELSE 0) + ReportedDeposits(w, P \ {p})

\* C24: a failing cache call inside addFunds does not turn a committed
\* balance change into a failure: once every call has returned, the amount
\* committed to each wallet by addFunds is the sum of the amounts of the
\* addFunds calls that reported success.
C24_CommittedDepositsReported ==
    AllTerminated
    => \A w \in Wallets : deposited[w] = ReportedDeposits(w, Procs)

\* C25: an addFunds call that has lost its lease and finds a cache entry
\* whose version is not the one it read does not write the cache.
C25_LateWriterRejected ==
    [][\A p \in Procs :
         LET c == call[p]
         IN  (/\ pc[p] = "af_cache" /\ pc'[p] # "af_cache"
              /\ lock[c.dst] # c.cid
              /\ wcache[c.dst].present
              /\ wcache[c.dst].version # c.version - 1)
             => wcache'[c.dst] = wcache[c.dst]]_vars

\* C26: addFunds reads the entry's version and takes prior + 1 (1 without an
\* entry); its commit raises the stored balance of its wallet by exactly the
\* amount and inserts exactly one COMPLETED DEPOSIT row in the same step; the
\* cache write that follows stores the balance read in the transaction under
\* that version; a failure before the commit leaves balances and rows as they
\* were and the call fails.
C26_AddFundsCommitsAtomically ==
    [][\A p \in Procs :
         LET c == call[p]
             w == c.dst
         IN  /\ (pc[p] = "af_find" /\ pc'[p] = "af_commit")
                => call'[p].version =
                       (IF wcache[w].present THEN wcache[w].version + 1 ELSE 1)
             /\ (pc[p] = "af_commit" /\ pc'[p] = "af_cache")
                => /\ balance' = [balance EXCEPT ![w] = balance[w] + c.amount]
                   /\ Len(txs') = Len(txs) + 1
                   /\ SubSeq(txs', 1, Len(txs)) = txs
                   /\ txs'[Len(txs')].type = "DEPOSIT"
                   /\ txs'[Len(txs')].status = "COMPLETED"
                   /\ txs'[Len(txs')].dst = w
                   /\ txs'[Len(txs')].amount = c.amount
                   /\ call'[p].updatedBalance = balance'[w]
             /\ (pc[p] = "af_cache" /\ pc'[p] = "af_release"
                   /\ call'[p].error = "")
                => /\ wcache'[w].present
                   /\ wcache'[w].version = c.version
                   /\ wcache'[w].balance = c.updatedBalance
             /\ (pc[p] = "af_commit" /\ pc'[p] = "af_release")
                => /\ balance' = balance
                   /\ txs' = txs
                   /\ call'[p].error # ""]_vars

\* C26 witness: one addFunds call returned the wallet with its deposit
\* committed and cached, another failed before its commit.
C26_Witness ==
    \E p \in Procs :
        /\ pc[p] = "done" /\ call[p].op = "addFunds"
        /\ call[p].resp.kind = "wallet"
        /\ deposited[call[p].dst] = call[p].amount
        /\ wcache[call[p].dst].present
        /\ pc[Other(p)] = "done" /\ call[Other(p)].op = "addFunds"
        /\ call[Other(p)].resp = ErrorResp("Error:store_failure")

\* an addFunds request that must be rejected
Rejected(c) ==
    /\ c.op = "addFunds"
    /\ c.amount <= 0 \/ ~(WalletOwner[c.dst] = c.user /\ WalletActive[c.dst])

\* only rejected addFunds requests have been submitted
OnlyRejected == \A p \in Procs : pc[p] = "idle" \/ Rejected(call[p])

\* nothing was stored: balances, rows and balance entries are the initial ones
NothingStored ==
    /\ balance = balance0
    /\ txs = <<>>
    /\ \A w \in Wallets : ~wcache[w].present

C28_UsageFailureKeepsSuccess ==
    \A p \in Procs :
        (/\ ReturnedTransfer(p) /\ call[p].tx # 0
         /\ txs[call[p].tx].status = "COMPLETED")
        => /\ call[p].resp.kind = "result"
           /\ rcache[call[p].key].kind = "result"
           /\ ~ecache[call[p].key]

\* the call of worker p has run validateTransferLimits
PassedLimitCheck(p) ==
    /\ ReturnedTransfer(p)
    /\ \/ call[p].resp = ErrorResp("BadRequest:limit_exceeded")
       \/ call[p].tx # 0

\* C29: once a transferFunds call has run validateTransferLimits, the resets
\* that were due are stored (the reset dates are today and this month),
\* whether the limit assertion passed or failed.
C29_ResetPersisted ==
    \A p \in Procs :
        PassedLimitCheck(p)
        => /\ limits[call[p].user].lastDailyReset = Today.day
           /\ limits[call[p].user].lastMonthlyReset = Today.month

\* metadata.destinationUserId of a transaction row: no code sets it
NoUser == ""
destinationUserId(row) == NoUser

\* TransferController.getTransactionByIdempotencyKey for caller u and key k
getTransactionByIdempotencyKey(u, k) ==
    IF RowIdsByKey(k) = {}
    THEN [exists |-> FALSE]
    ELSE LET row == txs[CHOOSE i \in RowIdsByKey(k) : TRUE]
             hasAccess == row.user = u \/ destinationUserId(row) = u
         IN  IF ~hasAccess
             THEN [exists |-> FALSE, message |-> "Access denied"]
             ELSE [exists |-> TRUE,
                   transaction |-> [id |-> row.id, status |-> row.status,
                                    transferState |-> row.transferState,
                                    amount |-> row.amount,
                                    sourceWalletId |-> row.src,
                                    destinationWalletId |-> row.dst,
                                    retryCount |-> row.retryCount]]

\* C30: the lookup by idempotency key returns exists = true with the
\* transaction exactly when a transaction with the key exists and the caller
\* owns its source wallet or its destination wallet; otherwise it returns no
\* transaction data.
C30_LookupAccess ==
    \A u \in Users, k \in Keys :
        LET r == getTransactionByIdempotencyKey(u, k)
            owned == \E i \in RowIdsByKey(k) :
                        WalletOwner[txs[i].src] = u \/ WalletOwner[txs[i].dst] = u
        IN  /\ r.exists <=> owned
            /\ r.exists => r.transaction.id \in RowIdsByKey(k)
            /\ ~r.exists => "transaction" \notin DOMAIN r

\* a step's execute() throws in this transition: the coordinator retries the
\* step or starts compensation
StepThrows(p) ==
    /\ pc[p] \in StepPcs
    /\ call'[p].executions = call[p].executions + 1
    /\ pc'[p] = "comp_begin" \/ call'[p].retryCount = call[p].retryCount + 1

\* C31: retries are counted per step: a step that throws is executed again
\* exactly when it is retryable and has itself been retried fewer than its
\* maxRetries times (3, 2, 2, 2), however many retries earlier steps used;
\* finalize_transfer (not retryable) is never executed again
C31_RetriesPerStep ==
    [][\A p \in Procs :
         StepThrows(p) =>
             LET i == call[p].step
             IN  (pc'[p] = StepEntry(i)) <=>
                     /\ StepRetryable[i + 1]
                     /\ call[p].stepRetries < StepMaxRetries[i + 1]]_vars

\* the steps compensate() was called for, in call order, and those of them
\* whose compensate() returned
InvokedSteps(inv)  == [k \in 1 .. Len(inv) |-> inv[k][1]]
ReturnedSteps(inv) == InvokedSteps(SelectSeq(inv, LAMBDA e : e[2]))

\* compensateSaga leaves its loop in this transition
CompensationEnds(p) ==
    pc[p] = "comp" /\ call[p].todo = <<>> /\ pc'[p] = "store_failure"

InsufficientFound(p) ==
    /\ pc[p] = "s_debit_read"
    /\ balance[call[p].src] < call[p].amount
    /\ call'[p].executions = call[p].executions + 1

\* C33: when debit_source_wallet finds the balance insufficient the step is
\* not retried (retryCount unchanged) and compensation starts; when that
\* compensation ends, the reserve_funds compensation has run and cleared the
\* reservation, no other wallet compensation has run, and the row is FAILED
C33_InsufficientNotRetried ==
    [][\A p \in Procs :
         /\ InsufficientFound(p) =>
               /\ call'[p].retryCount = call[p].retryCount
               /\ pc'[p] = "comp_begin"
         /\ (CompensationEnds(p) /\ call[p].error = "Insufficient balance") =>
               /\ call[p].compensatedSteps =
                      <<"reserve_funds", "validate_transfer">>
               /\ txs'[call[p].tx].reservedAmount = NoVal
               /\ txs'[call[p].tx].status = "FAILED"
               /\ balance' = balance]_vars

\* the forward states of TransferState, in the order of the enum
ForwardStates == <<"INITIATED", "VALIDATION_COMPLETE", "FUNDS_RESERVED",
                   "DEBIT_COMPLETE", "CREDIT_COMPLETE", "COMPLETED">>

\* C34: while a saga moves forward the persisted transferState names the last
\* completed step (VALIDATION_COMPLETE after validate_transfer, FUNDS_RESERVED
\* after reserve_funds, DEBIT_COMPLETE after debit_source_wallet,
\* CREDIT_COMPLETE after credit_destination_wallet), so a row whose debit step
\* is completed is never in INITIATED, VALIDATION_COMPLETE or FUNDS_RESERVED
C34_StateNamesLastStep ==
    \A i \in DOMAIN txs :
        LET row == txs[i]
            n   == Len(row.sagaCompleted)
        IN  (/\ row.type = "TRANSFER"
             /\ row.status = "PENDING"
             /\ row.sagaCompleted = SubSeq(StepNames, 1, n)
             /\ n \in 1 .. 4) =>
                /\ row.transferState = ForwardStates[n + 1]
                /\ n >= 3 => row.transferState \notin
                       {"INITIATED", "VALIDATION_COMPLETE", "FUNDS_RESERVED"}

\* position of a forward state in ForwardStates
StateRank(st) == CHOOSE k \in DOMAIN ForwardStates : ForwardStates[k] = st

\* the range of a sequence
Range(f) == {f[k] : k \in DOMAIN f}

\* C35: a row's transferState only moves forward along INITIATED,
\* VALIDATION_COMPLETE, FUNDS_RESERVED, DEBIT_COMPLETE, CREDIT_COMPLETE,
\* COMPLETED, or leaves a state before COMPLETED for COMPENSATION_PENDING and
\* then COMPENSATED; it never moves backward and never leaves COMPLETED or
\* COMPENSATED
C35_StateMovesForward ==
    [][\A i \in DOMAIN txs :
         LET a == txs[i].transferState
             b == txs'[i].transferState
         IN  a # b =>
               \/ /\ a \in Range(ForwardStates) \ {"COMPLETED"}
                  /\ \/ b = "COMPENSATION_PENDING"
                     \/ /\ b \in Range(ForwardStates)
                        /\ StateRank(b) > StateRank(a)
               \/ a = "COMPENSATION_PENDING" /\ b = "COMPENSATED"]_vars

\* the largest maxRetries of the step table
LargestMaxRetries ==
    CHOOSE m \in Range(StepMaxRetries) : \A n \in Range(StepMaxRetries) : n <= m

\* executeSaga has returned or rethrown: the row is COMPLETED, or FAILED with
\* the compensation finished
SagaEnded(p) ==
    /\ pc[p] \notin SagaPcs
    /\ call[p].tx # 0
    /\ \/ /\ txs[call[p].tx].status = "COMPLETED"
          /\ txs[call[p].tx].transferState = "COMPLETED"
       \/ /\ txs[call[p].tx].status = "FAILED"
          /\ txs[call[p].tx].transferState = "COMPENSATED"

\* C36: executeSaga always terminates: whatever throws and however often, a
\* saga awaits step.execute() at most NumSteps plus the largest maxRetries
\* times, and every started saga ends COMPLETED or compensated with status
\* FAILED
C36_SagaTerminates ==
    /\ [](\A p \in Procs : call[p].executions <= NumSteps + LargestMaxRetries)
    /\ \A p \in Procs : (pc[p] \in SagaPcs) ~> SagaEnded(p)

\* a saga has completed after the largest possible number of step executions
C36_Witness ==
    \E p \in Procs :
        /\ SagaEnded(p)
        /\ pc[p] = "usage_read"
        /\ call[p].executions = NumSteps + LargestMaxRetries
        /\ txs[call[p].tx].status = "COMPLETED"

\* withWalletLock's finally runs releaseWalletLock in this transition
Releases(p) ==
    pc[p] \in {"af_release", "gb_release"} /\ pc'[p] = "done"

\* C37: releaseWalletLock(walletId, token) deletes the lease only if the
\* stored token equals token: a holder whose lease expired and was acquired
\* by another operation leaves that operation's lease in place when it
\* releases, and a holder whose token is still stored frees the wallet
C37_ReleaseOnlyOwnLease ==
    [][\A p \in Procs :
         Releases(p) =>
             LET w == call[p].dst
             IN  IF lock[w] = call[p].cid
                 THEN lock' = [lock EXCEPT ![w] = 0]
                 ELSE lock' = lock]_vars

\* an addFunds has released (its response is out) while the other operation
\* held the lease of the same wallet and still holds it: the other one read
\* the cached version before the first one wrote it
C37_Witness ==
    \E p \in Procs :
        LET q == Other(p)
            w == call[p].dst
        IN  /\ pc[p] = "done"
            /\ call[p].resp.kind = "wallet"
            /\ pc[q] = "af_commit"
            /\ call[q].dst = w
            /\ lock[w] = call[q].cid
            /\ wcache[w].present
            /\ wcache[w].version = call[q].version

\* positions inside the operation that withWalletLock runs, up to the release
CriticalPcs == {"af_find", "af_commit", "af_cache", "af_release",
                "gb_recheck", "gb_refresh", "gb_release"}

\* p is inside a withWalletLock critical section of wallet w
InCritical(p, w) == pc[p] \in CriticalPcs /\ call[p].dst = w

\* acquireWalletLock of p finds the lease of its wallet held in this transition
AcquireOnHeld(p) ==
    /\ pc[p] \in {"af_lock", "gb_lock"}
    /\ pc[p] = "af_lock" => call[p].amount > 0
    /\ lock[call[p].dst] # 0
    /\ pc'[p] # pc[p]

\* C38: at most one operation at a time is inside a withWalletLock critical
\* section of a wallet; acquireWalletLock on a lease that is held returns null
\* without changing the lease, and withWalletLock then throws without running
\* the operation
C38_OneWriterPerWallet ==
    [][/\ \A w \in Wallets :
            \A p, q \in Procs :
                (InCritical(p, w) /\ InCritical(q, w))' => p = q
       /\ \A p \in Procs :
            AcquireOnHeld(p) =>
                /\ lock' = lock
                /\ pc'[p] = "done"
                /\ call'[p].resp = ErrorResp("Error:unable_to_acquire_lock")
                /\ UNCHANGED <<balance, wcache, txs>>]_vars

\* the saga of p has stored its debit of the source wallet (debitSourceWallet's
\* update went through) and no step has failed since
DebitStored(p) ==
    pc[p] \in {"s_debit_cache", "s_credit_read", "s_credit_update",
               "s_credit_cache", "s_finalize", "complete"}

\* the saga of p has stored its credit of the destination wallet
CreditStored(p) == pc[p] \in {"s_credit_cache", "s_finalize", "complete"}

\* C39: at every point where the process may stop, the saga state persisted
\* in the row lists as completed every step whose wallet-balance effect is
\* stored, and lists the completed steps in execution order, also after a
\* compensation has run
C39_PersistedStateRecoverable ==
    /\ \A p \in Procs :
          (call[p].op = "transfer" /\ call[p].tx # 0) =>
              LET done == Range(txs[call[p].tx].sagaCompleted)
              IN  /\ DebitStored(p) => "debit_source_wallet" \in done
                  /\ CreditStored(p) => "credit_destination_wallet" \in done
    /\ \A i \in DOMAIN txs :
          txs[i].sagaCompleted =
              SubSeq(StepNames, 1, Len(txs[i].sagaCompleted))

\* C40: getWalletBalance(walletId, userId) returns a balance only if the
\* wallet is active and owned by userId, on the path served from a cache entry
\* less than 60 s old as well as on the path that reads the store
C40_BalanceOnlyForOwner ==
    \A p \in Procs :
        (/\ pc[p] = "done"
         /\ call[p].op = "getBalance"
         /\ call[p].resp.kind = "balance") =>
            /\ WalletOwner[call[p].dst] = call[p].user
            /\ WalletActive[call[p].dst]

====
